---- MODULE Spec2Model ----
(***************************************************************************)
(* Move decoding of otbreview/pipeline/decode.py: the two decoders         *)
(* decode_moves_from_states (occupancy grids) and decode_moves_from_tags   *)
(* (tag-ID grids), the scorers they call, and the chess rules they consume *)
(* from the python-chess library (chess.Board: legal_moves, push, san,     *)
(* fen, piece_at, is_castling).                                           *)
(*                                                                         *)
(* Squares are python-chess squares 0..63 (a1 = 0, h1 = 7, a8 = 56,        *)
(* h8 = 63).  A piece is 0 (no piece) or PieceType + 6 for black, with     *)
(* PieceType 1..6 = pawn, knight, bishop, rook, queen, king.  A colour is  *)
(* a BOOLEAN, TRUE = chess.WHITE.  Scores are fixed-point numbers with one *)
(* decimal digit (10 = 1.0), which represents every float the scorers      *)
(* produce and both default thresholds exactly.                            *)
(***************************************************************************)
EXTENDS Integers, Sequences, FiniteSets, TLC

-----------------------------------------------------------------------------
(* chess: squares and pieces *)

PAWN == 1
KNIGHT == 2
BISHOP == 3
ROOK == 4
QUEEN == 5
KING == 6

WHITE == TRUE
BLACK == FALSE

SQUARES == 0 .. 63

NoSquare == -1

square_file(s) == s % 8

square_rank(s) == s \div 8

square(f, r) == r * 8 + f

A1 == square(0, 0)
C1 == square(2, 0)
D1 == square(3, 0)
E1 == square(4, 0)
F1 == square(5, 0)
G1 == square(6, 0)
H1 == square(7, 0)
A8 == square(0, 7)
C8 == square(2, 7)
D8 == square(3, 7)
E8 == square(4, 7)
F8 == square(5, 7)
G8 == square(6, 7)
H8 == square(7, 7)

FILE_NAMES == <<"a", "b", "c", "d", "e", "f", "g", "h">>

RANK_NAMES == <<"1", "2", "3", "4", "5", "6", "7", "8">>

SQUARE_NAME(s) == FILE_NAMES[square_file(s) + 1] \o RANK_NAMES[square_rank(s) + 1]

\* chess.Piece: the piece type and colour of a piece code
piece_type(p) == IF p > 6 THEN p - 6 ELSE p

piece_color(p) == p <= 6

Piece(t, c) == IF c THEN t ELSE t + 6

\* chess.Move(from_square, to_square, promotion); promotion 0 is None
Move(f, t) == [from_square |-> f, to_square |-> t, promotion |-> 0]

Promo(f, t, p) == [from_square |-> f, to_square |-> t, promotion |-> p]

\* a set of integers as the sequence scan_reversed() yields it: descending
RECURSIVE scan_reversed(_)
scan_reversed(S) ==
  IF S = {} THEN <<>>
  ELSE LET m == CHOOSE x \in S : \A y \in S : y <= x
       IN <<m>> \o scan_reversed(S \ {m})

\* the concatenation of a sequence of sequences
RECURSIVE Flatten(_)
Flatten(ss) == IF ss = <<>> THEN <<>> ELSE Head(ss) \o Flatten(Tail(ss))

-----------------------------------------------------------------------------
(* chess.Board: attacks *)

KnightDeltas ==
  {<<1, 2>>, <<2, 1>>, <<2, -1>>, <<1, -2>>,
   <<-1, -2>>, <<-2, -1>>, <<-2, 1>>, <<-1, 2>>}

KingDeltas ==
  {<<1, 0>>, <<1, 1>>, <<0, 1>>, <<-1, 1>>,
   <<-1, 0>>, <<-1, -1>>, <<0, -1>>, <<1, -1>>}

RookDeltas == {<<1, 0>>, <<0, 1>>, <<-1, 0>>, <<0, -1>>}

BishopDeltas == {<<1, 1>>, <<-1, 1>>, <<-1, -1>>, <<1, -1>>}

PawnDeltas(c) == IF c THEN {<<-1, 1>>, <<1, 1>>} ELSE {<<-1, -1>>, <<1, -1>>}

OnBoard(f, r) == f >= 0 /\ f <= 7 /\ r >= 0 /\ r <= 7

\* the squares one step of a delta in D away from s
StepAttacks(s, D) ==
  {square(square_file(s) + d[1], square_rank(s) + d[2]) :
     d \in {e \in D : OnBoard(square_file(s) + e[1], square_rank(s) + e[2])}}

\* the squares of the ray from s in direction d, up to and including the
\* first occupied one
RECURSIVE SlideAttacks(_, _, _)
SlideAttacks(pcs, s, d) ==
  LET f == square_file(s) + d[1]
      r == square_rank(s) + d[2]
  IN IF ~OnBoard(f, r) THEN {}
     ELSE IF pcs[square(f, r)] # 0 THEN {square(f, r)}
     ELSE {square(f, r)} \cup SlideAttacks(pcs, square(f, r), d)

\* Board.attacks_mask(square): the squares the piece on s attacks
attacks_mask(pcs, s) ==
  LET Of(t) ==
        IF t = PAWN THEN StepAttacks(s, PawnDeltas(piece_color(pcs[s])))
        ELSE IF t = KNIGHT THEN StepAttacks(s, KnightDeltas)
        ELSE IF t = KING THEN StepAttacks(s, KingDeltas)
        ELSE IF t \in {BISHOP, ROOK, QUEEN}
          THEN UNION {SlideAttacks(pcs, s, d) :
                        d \in (IF t = BISHOP THEN {} ELSE RookDeltas)
                              \cup (IF t = ROOK THEN {} ELSE BishopDeltas)}
        ELSE {}
  IN Of(piece_type(pcs[s]))

\* the squares occupied by pieces of colour c (Board.occupied_co[c])
occupied_co(pcs, c) == {s \in SQUARES : pcs[s] # 0 /\ piece_color(pcs[s]) = c}

\* Board.is_attacked_by(color, square)
is_attacked_by(pcs, c, sq) ==
  \E s \in SQUARES :
    /\ pcs[s] # 0
    /\ piece_color(pcs[s]) = c
    /\ sq \in attacks_mask(pcs, s)

\* Board.king(color): the highest square holding a king of that colour
king(pcs, c) ==
  LET Highest(K) == IF K = {} THEN NoSquare ELSE CHOOSE x \in K : \A y \in K : y <= x
  IN Highest({s \in SQUARES : pcs[s] = Piece(KING, c)})

-----------------------------------------------------------------------------
(* chess.Board: the position and Board.push *)

\* A position is a record
\*   pcs             the piece on each square (0 = none)
\*   turn            the side to move
\*   castling_rights the rook squares that still carry a castling right
\*   ep_square       the square behind the last double pawn push, or NoSquare
\*   move_stack      the moves pushed so far

BackRank(c) == IF c THEN {s \in SQUARES : square_rank(s) = 0}
               ELSE {s \in SQUARES : square_rank(s) = 7}

\* Board.clean_castling_rights() of a standard (not Chess960) board
clean_castling_rights(B) ==
  LET side(c) ==
        IF B.pcs[IF c THEN E1 ELSE E8] # Piece(KING, c) THEN {}
        ELSE {s \in B.castling_rights \cap (IF c THEN {A1, H1} ELSE {A8, H8}) :
                B.pcs[s] = Piece(ROOK, c)}
  IN side(WHITE) \cup side(BLACK)

\* Board._to_chess960(move): castling as "king takes own rook"
to_chess960(B, m) ==
  IF m.from_square = E1 /\ B.pcs[E1] # 0 /\ piece_type(B.pcs[E1]) = KING
    THEN IF m.to_square = G1 /\ ~(B.pcs[G1] # 0 /\ piece_type(B.pcs[G1]) = ROOK)
           THEN Move(E1, H1)
         ELSE IF m.to_square = C1 /\ ~(B.pcs[C1] # 0 /\ piece_type(B.pcs[C1]) = ROOK)
           THEN Move(E1, A1)
         ELSE m
  ELSE IF m.from_square = E8 /\ B.pcs[E8] # 0 /\ piece_type(B.pcs[E8]) = KING
    THEN IF m.to_square = G8 /\ ~(B.pcs[G8] # 0 /\ piece_type(B.pcs[G8]) = ROOK)
           THEN Move(E8, H8)
         ELSE IF m.to_square = C8 /\ ~(B.pcs[C8] # 0 /\ piece_type(B.pcs[C8]) = ROOK)
           THEN Move(E8, A8)
         ELSE m
  ELSE m

\* Board.push(move): the position after the move.  The caller guarantees a
\* piece on the from-square (push asserts it); the piece put on the target
\* takes the colour of the side to move, as in python-chess.
push(B, m0) ==
  LET Moved(m, from, to, pt, captured, rights1) ==
        LET double_w == pt = PAWN /\ to - from = 16 /\ square_rank(from) = 1
            double_b == pt = PAWN /\ to - from = -16 /\ square_rank(from) = 6
            en_passant ==
              /\ pt = PAWN /\ ~double_w /\ ~double_b
              /\ to = B.ep_square
              /\ (to - from) \in {7, 9, -7, -9}
              /\ captured = 0
            pt2 == IF m.promotion # 0 THEN m.promotion ELSE pt
            Put(pcs2, castling, a_side) ==
              IF castling
                THEN IF a_side
                       THEN [pcs2 EXCEPT ![to] = 0,
                                         ![IF B.turn THEN C1 ELSE C8] = Piece(KING, B.turn),
                                         ![IF B.turn THEN D1 ELSE D8] = Piece(ROOK, B.turn)]
                       ELSE [pcs2 EXCEPT ![to] = 0,
                                         ![IF B.turn THEN G1 ELSE G8] = Piece(KING, B.turn),
                                         ![IF B.turn THEN F1 ELSE F8] = Piece(ROOK, B.turn)]
                ELSE [pcs2 EXCEPT ![to] = Piece(pt2, B.turn)]
            Lifted(pcs2) ==
              Put(pcs2,
                  pt2 = KING /\ pcs2[to] # 0 /\ piece_color(pcs2[to]) = B.turn,
                  square_file(to) < square_file(from))
        IN [pcs |->
              Lifted(IF en_passant
                       THEN [B.pcs EXCEPT ![from] = 0,
                                          ![B.ep_square + (IF B.turn THEN -8 ELSE 8)] = 0]
                       ELSE [B.pcs EXCEPT ![from] = 0]),
            turn |-> ~B.turn,
            castling_rights |->
              IF pt = KING THEN rights1 \ BackRank(B.turn)
              ELSE IF captured # 0 /\ piece_type(captured) = KING
                THEN IF B.turn /\ square_rank(to) = 7 THEN rights1 \ BackRank(BLACK)
                     ELSE IF ~B.turn /\ square_rank(to) = 0 THEN rights1 \ BackRank(WHITE)
                     ELSE rights1
              ELSE rights1,
            ep_square |-> IF double_w THEN from + 8
                          ELSE IF double_b THEN from - 8
                          ELSE NoSquare,
            move_stack |-> Append(B.move_stack, m0)]
      From(m) ==
        Moved(m, m.from_square, m.to_square, piece_type(B.pcs[m.from_square]),
              B.pcs[m.to_square],
              clean_castling_rights(B) \ {m.from_square, m.to_square})
  IN From(to_chess960(B, m0))

-----------------------------------------------------------------------------
(* chess.Board: move generation, in python-chess's generation order *)

\* the moves of the pieces that are not pawns: from-squares descending, and
\* for each the target squares descending
PieceMoves(B) ==
  LET Of(own) ==
        LET MovesFrom(f) ==
              LET To(ts) == [j \in 1 .. Len(ts) |-> Move(f, ts[j])]
              IN To(scan_reversed(attacks_mask(B.pcs, f) \ own))
            From(froms) == Flatten([i \in 1 .. Len(froms) |-> MovesFrom(froms[i])])
        IN From(scan_reversed({s \in own : piece_type(B.pcs[s]) # PAWN}))
  IN Of(occupied_co(B.pcs, B.turn))

\* Board.generate_castling_moves: h-side before a-side
CastlingMoves(B) ==
  LET c == B.turn
      k == IF B.turn THEN E1 ELSE E8
      CanCastle(r) ==
        /\ \A s \in (IF r > k THEN {k + 1, k + 2} ELSE {k - 1, k - 2, k - 3}) :
             B.pcs[s] = 0
        /\ \A s \in (IF r > k THEN {k, k + 1, k + 2} ELSE {k, k - 1, k - 2}) :
             ~is_attacked_by(B.pcs, ~c, s)
      To(ok) == [i \in 1 .. Len(ok) |-> Move(k, IF ok[i] > k THEN k + 2 ELSE k - 2)]
  IN To(SelectSeq(scan_reversed(clean_castling_rights(B) \cap BackRank(c)),
                  CanCastle))

\* a pawn move to square t, expanded to the four promotions on the last rank
PawnMove(f, t) ==
  IF square_rank(t) \in {0, 7}
    THEN <<Promo(f, t, QUEEN), Promo(f, t, ROOK),
           Promo(f, t, BISHOP), Promo(f, t, KNIGHT)>>
    ELSE <<Move(f, t)>>

\* Board.generate_pseudo_legal_ep
EnPassantMoves(B) ==
  LET From(caps) == [i \in 1 .. Len(caps) |-> Move(caps[i], B.ep_square)]
  IN IF B.ep_square = NoSquare \/ B.pcs[B.ep_square] # 0 THEN <<>>
     ELSE From(scan_reversed(
                 {s \in StepAttacks(B.ep_square, PawnDeltas(~B.turn)) :
                    /\ B.pcs[s] = Piece(PAWN, B.turn)
                    /\ square_rank(s) = (IF B.turn THEN 4 ELSE 3)}))

\* the pawn moves: captures, single pushes, double pushes, en passant
PawnMoves(B) ==
  LET c == B.turn
      up == IF B.turn THEN 8 ELSE -8
      Captures(f) ==
        LET To(ts) == Flatten([j \in 1 .. Len(ts) |-> PawnMove(f, ts[j])])
        IN To(scan_reversed({t \in StepAttacks(f, PawnDeltas(c)) :
                               B.pcs[t] # 0 /\ piece_color(B.pcs[t]) # c}))
      Pushes(froms, ss, ds) ==
        Flatten([i \in 1 .. Len(froms) |-> Captures(froms[i])])
        \o Flatten([i \in 1 .. Len(ss) |-> PawnMove(ss[i] - up, ss[i])])
        \o [i \in 1 .. Len(ds) |-> Move(ds[i] - 2 * up, ds[i])]
        \o EnPassantMoves(B)
      Doubles(pawns, singles) ==
        Pushes(scan_reversed(pawns), scan_reversed(singles),
               scan_reversed({t + up : t \in {s \in singles :
                                                /\ square_rank(s) = (IF c THEN 2 ELSE 5)
                                                /\ B.pcs[s + up] = 0}}))
      Singles(pawns) ==
        Doubles(pawns,
                {s + up : s \in {p \in pawns : p + up \in SQUARES /\ B.pcs[p + up] = 0}})
  IN Singles({s \in SQUARES : B.pcs[s] = Piece(PAWN, c)})

\* Board.generate_pseudo_legal_moves
pseudo_legal_moves(B) == PieceMoves(B) \o CastlingMoves(B) \o PawnMoves(B)

\* Board.is_check
is_check(B) ==
  LET Attacked(k) == k # NoSquare /\ is_attacked_by(B.pcs, ~B.turn, k)
  IN Attacked(king(B.pcs, B.turn))

\* a pseudo-legal move is legal when it leaves the mover's king unattacked
is_safe(B, m) ==
  LET Unattacked(after, k) == k = NoSquare \/ ~is_attacked_by(after, ~B.turn, k)
      After(after) == Unattacked(after, king(after, B.turn))
  IN After(push(B, m).pcs)

\* the moves generated without the check that the king is left unattacked
legal_moves_unchecked(B) == pseudo_legal_moves(B)

\* list(board.legal_moves): Board.generate_legal_moves.  In check the king's
\* evasions are generated first, then the moves of the other pieces.
legal_moves(B) ==
  LET Safe(m) == is_safe(B, m)
      Ordered(k, all) ==
        LET OfKing(m) == m.from_square = k
            NotOfKing(m) == m.from_square # k
        IN IF is_check(B)
             THEN SelectSeq(all, OfKing) \o SelectSeq(all, NotOfKing)
             ELSE all
  IN Ordered(king(B.pcs, B.turn), SelectSeq(pseudo_legal_moves(B), Safe))

-----------------------------------------------------------------------------
(* chess.Board: FEN.  A FEN is a record of its first four fields: board (the
   piece placement, as the sequence of its characters), turn ("w" or "b"),
   castling (the characters of the castling field) and ep ("-" or a square
   name).  The two move counters do not influence move generation. *)

PIECE_SYMBOLS == <<"p", "n", "b", "r", "q", "k">>

UPPER_SYMBOLS == <<"P", "N", "B", "R", "Q", "K">>

\* Piece.symbol()
symbol(p) ==
  IF piece_color(p) THEN UPPER_SYMBOLS[piece_type(p)] ELSE PIECE_SYMBOLS[piece_type(p)]

\* Piece.from_symbol(c)
from_symbol(c) == CHOOSE p \in 1 .. 12 : symbol(p) = c

IsDigit(c) == \E n \in 1 .. 8 : RANK_NAMES[n] = c

DigitValue(c) == CHOOSE n \in 1 .. 8 : RANK_NAMES[n] = c

\* chess.SQUARES_180[i]: the i-th square in FEN order (a8 first, h1 last)
SQUARES_180(i) == square(i % 8, 7 - (i \div 8))

NoPieces == [s \in SQUARES |-> 0]

\* Board._set_board_fen: characters i.. of the placement, next FEN index idx
RECURSIVE set_board_fen(_, _, _, _)
set_board_fen(cs, i, idx, pcs) ==
  IF i > Len(cs) THEN pcs
  ELSE IF cs[i] = "/" THEN set_board_fen(cs, i + 1, idx, pcs)
  ELSE IF IsDigit(cs[i]) THEN set_board_fen(cs, i + 1, idx + DigitValue(cs[i]), pcs)
  ELSE set_board_fen(cs, i + 1, idx + 1,
                     [pcs EXCEPT ![SQUARES_180(idx)] = from_symbol(cs[i])])

\* Board.board_fen(): FEN index idx.., run of empty squares so far
RECURSIVE board_fen(_, _, _)
board_fen(pcs, idx, empty) ==
  IF idx > 63 THEN <<>>
  ELSE LET sq == SQUARES_180(idx)
           e == IF pcs[sq] = 0 THEN empty + 1 ELSE 0
           here == IF pcs[sq] = 0 THEN <<>>
                   ELSE (IF empty > 0 THEN <<RANK_NAMES[empty]>> ELSE <<>>)
                        \o <<symbol(pcs[sq])>>
           eol == IF square_file(sq) = 7
                    THEN (IF e > 0 THEN <<RANK_NAMES[e]>> ELSE <<>>)
                         \o (IF sq # H1 THEN <<"/">> ELSE <<>>)
                    ELSE <<>>
       IN here \o eol \o board_fen(pcs, idx + 1, IF square_file(sq) = 7 THEN 0 ELSE e)

\* Board._set_castling_fen: the rook square a castling flag stands for
castling_square(pcs, flag) ==
  LET c == flag \in {"K", "Q"}
      rooks == {s \in BackRank(c) : pcs[s] = Piece(ROOK, c)}
      k == king(pcs, c)
      lo == CHOOSE x \in rooks : \A y \in rooks : x <= y
      hi == CHOOSE x \in rooks : \A y \in rooks : y <= x
  IN IF flag \in {"Q", "q"}
       THEN IF k # NoSquare /\ rooks # {} /\ lo < k THEN lo
            ELSE (IF c THEN A1 ELSE A8)
       ELSE IF k # NoSquare /\ rooks # {} /\ k < hi THEN hi
            ELSE (IF c THEN H1 ELSE H8)

\* chess.Board(fen)
Board(fen) ==
  LET pcs == set_board_fen(fen.board, 1, 0, NoPieces)
  IN [pcs |-> pcs,
      turn |-> (fen.turn = "w"),
      castling_rights |->
        {castling_square(pcs, fen.castling[i]) :
           i \in {j \in 1 .. Len(fen.castling) : fen.castling[j] # "-"}},
      ep_square |-> IF fen.ep = "-" THEN NoSquare
                    ELSE CHOOSE s \in SQUARES : SQUARE_NAME(s) = fen.ep,
      move_stack |-> <<>>]

\* Board.has_legal_en_passant
has_legal_en_passant(B) ==
  /\ B.ep_square # NoSquare
  /\ LET Safe(m) == is_safe(B, m) IN SelectSeq(EnPassantMoves(B), Safe) # <<>>

\* Board.castling_xfen() of a standard board
castling_xfen(B) ==
  LET flags(c) ==
        LET rs == scan_reversed(clean_castling_rights(B) \cap BackRank(c))
        IN [i \in 1 .. Len(rs) |->
              IF square_file(rs[i]) < square_file(king(B.pcs, c))
                THEN (IF c THEN "Q" ELSE "q")
                ELSE (IF c THEN "K" ELSE "k")]
      all == flags(WHITE) \o flags(BLACK)
  IN IF all = <<>> THEN <<"-">> ELSE all

\* Board.fen()
fen(B) ==
  [board |-> board_fen(B.pcs, 0, 0),
   turn |-> IF B.turn THEN "w" ELSE "b",
   castling |-> castling_xfen(B),
   ep |-> IF has_legal_en_passant(B) THEN SQUARE_NAME(B.ep_square) ELSE "-"]

\* chess.STARTING_FEN, the position of chess.Board()
\* "rnbqkbnr/pppppppp/8/8/8/8/PPPPPPPP/RNBQKBNR w KQkq - 0 1"
STARTING_FEN ==
  [board |->
       <<"r", "n", "b", "q", "k", "b", "n", "r", "/", "p", "p", "p", "p",
       "p", "p", "p", "p", "/", "8", "/", "8", "/", "8", "/", "8", "/", "P",
       "P", "P", "P", "P", "P", "P", "P", "/", "R", "N", "B", "Q", "K", "B",
       "N", "R">>,
   turn |-> "w", castling |-> <<"K", "Q", "k", "q">>, ep |-> "-"]

-----------------------------------------------------------------------------
(* chess.Board: algebraic notation *)

\* Board.is_castling(move)
is_castling(B, m) ==
  /\ B.pcs[m.from_square] # 0
  /\ piece_type(B.pcs[m.from_square]) = KING
  /\ \/ square_file(m.from_square) - square_file(m.to_square) > 1
     \/ square_file(m.from_square) - square_file(m.to_square) < -1
     \/ B.pcs[m.to_square] = Piece(ROOK, B.turn)

\* Board.is_en_passant(move)
is_en_passant(B, m) ==
  /\ B.ep_square = m.to_square
  /\ B.pcs[m.from_square] # 0
  /\ piece_type(B.pcs[m.from_square]) = PAWN
  /\ (m.to_square - m.from_square) \in {7, 9, -7, -9}
  /\ B.pcs[m.to_square] = 0

\* Board.is_capture(move): the move touches a square of the side not to move
is_capture(B, m) ==
  \/ \E s \in {m.from_square, m.to_square} :
       B.pcs[s] # 0 /\ piece_color(B.pcs[s]) = ~B.turn
  \/ is_en_passant(B, m)

\* Board.is_checkmate
is_checkmate(B) == is_check(B) /\ legal_moves(B) = <<>>

\* san() asserts a piece on the from-square ("san() and lan() expect move to
\* be legal or null"); TRUE when the call returns, FALSE when it raises
san_returns(B, m) == B.pcs[m.from_square] # 0

\* the from-squares of the other legal moves of a piece of the same type and
\* of the side to move to the same target: generate_legal_moves(from_mask,
\* to_mask) in Board._algebraic_without_suffix
san_others(B, m) ==
  {s \in SQUARES \ {m.from_square} :
     /\ B.pcs[s] = Piece(piece_type(B.pcs[m.from_square]), B.turn)
     /\ m.to_square \in attacks_mask(B.pcs, s)
     /\ ~(B.pcs[m.to_square] # 0 /\ piece_color(B.pcs[m.to_square]) = B.turn)
     /\ is_safe(B, Move(s, m.to_square))}

\* Board._algebraic_without_suffix(move)
algebraic_without_suffix(B, m) ==
  LET Notation(pt, capture, others) ==
        LET on_rank == \E o \in others : square_rank(o) = square_rank(m.from_square)
            on_file == \E o \in others : square_file(o) = square_file(m.from_square)
            row == on_file
            column == on_rank \/ ~on_file
        IN (IF pt = PAWN THEN "" ELSE UPPER_SYMBOLS[pt])
           \o (IF pt # PAWN
                 THEN IF others # {}
                        THEN (IF column THEN FILE_NAMES[square_file(m.from_square) + 1]
                              ELSE "")
                             \o (IF row THEN RANK_NAMES[square_rank(m.from_square) + 1]
                                 ELSE "")
                        ELSE ""
               ELSE IF capture THEN FILE_NAMES[square_file(m.from_square) + 1]
               ELSE "")
           \o (IF capture THEN "x" ELSE "")
           \o SQUARE_NAME(m.to_square)
           \o (IF m.promotion # 0 THEN "=" \o UPPER_SYMBOLS[m.promotion] ELSE "")
  IN IF is_castling(B, m)
       THEN IF square_file(m.to_square) < square_file(m.from_square)
              THEN "O-O-O" ELSE "O-O"
       ELSE Notation(piece_type(B.pcs[m.from_square]), is_capture(B, m),
                     san_others(B, m))

\* Board.san(move), for a move with a piece on its from-square
san(B, m) ==
  LET Suffix(after) ==
        IF is_checkmate(after) THEN "#" ELSE IF is_check(after) THEN "+" ELSE ""
  IN algebraic_without_suffix(B, m) \o Suffix(push(B, m))

-----------------------------------------------------------------------------
(* decode.py: grids and the occupancy scorer.  A grid is the 8x8 matrix
   g[row][col], row 0 = rank 8, col 0 = file a, rows and columns 0..7. *)

ROWS == 0 .. 7

\* the weights of _compute_occupancy_distance_weighted, in tenths
MismatchWeight == 10
ChangedWeight == 10
ColorErrorWeight == 5

\* the default thresholds of decode_moves_from_states, in tenths
DefaultUncertainThreshold == 1
DefaultDistThreshold == 20

None == Move(NoSquare, NoSquare)

\* bool(move) of a chess.Move or None
Truthy(m) ==
  m # None /\ (m.from_square # 0 \/ m.to_square # 0 \/ m.promotion # 0)

\* an insertion that puts the new candidate before those of equal score
InsertAscending_unstable(sorted, c) ==
  LET Lower(x) == x.score < c.score
      NotLower(x) == x.score >= c.score
  IN SelectSeq(sorted, Lower) \o <<c>> \o SelectSeq(sorted, NotLower)

\* list.sort(key = score): stable, ascending
RECURSIVE InsertAscending(_, _)
InsertAscending(sorted, c) ==
  IF sorted = <<>> THEN <<c>>
  ELSE IF c.score < Head(sorted).score THEN <<c>> \o sorted
  ELSE <<Head(sorted)>> \o InsertAscending(Tail(sorted), c)

RECURSIVE SortAscending(_, _)
SortAscending(cs, sorted) ==
  IF cs = <<>> THEN sorted
  ELSE SortAscending(Tail(cs), InsertAscending(sorted, Head(cs)))

\* the ranking with the lowest score first
SortDescending_lowest_first(cs, sorted) == SortAscending(cs, sorted)

\* list.sort(key = score, reverse = True): stable, descending
RECURSIVE InsertDescending(_, _)
InsertDescending(sorted, c) ==
  IF sorted = <<>> THEN <<c>>
  ELSE IF c.score > Head(sorted).score THEN <<c>> \o sorted
  ELSE <<Head(sorted)>> \o InsertDescending(Tail(sorted), c)

RECURSIVE SortDescending(_, _)
SortDescending(cs, sorted) ==
  IF cs = <<>> THEN sorted
  ELSE SortDescending(Tail(cs), InsertDescending(sorted, Head(cs)))

\* candidates[:n]
Prefix(cs, n) == SubSeq(cs, 1, IF Len(cs) < n THEN Len(cs) ELSE n)

_board_state_to_occupancy(state) == state.occupancy

_compute_changed_squares(prev, curr) ==
  [r \in ROWS |-> [c \in ROWS |-> IF prev[r][c] # curr[r][c] THEN 1 ELSE 0]]

\* the occupancy with row 0 = rank 1
_fen_to_occupancy_unflipped(f) ==
  LET Of(board) ==
        [row \in ROWS |-> [col \in ROWS |->
           IF board.pcs[square(col, row)] = 0 THEN 0
           ELSE IF piece_color(board.pcs[square(col, row)]) = WHITE THEN 1
           ELSE 2]]
  IN Of(Board(f))

\* the occupancy of the position a FEN describes: 1 = white (light),
\* 2 = black (dark), 0 = empty; the square s lands on row 7 - s // 8, col s % 8
_fen_to_occupancy(f) ==
  LET Of(board) ==
        [row \in ROWS |-> [col \in ROWS |->
           IF board.pcs[square(col, 7 - row)] = 0 THEN 0
           ELSE IF piece_color(board.pcs[square(col, 7 - row)]) = WHITE THEN 1
           ELSE 2]]
  IN Of(Board(f))

Cells == ROWS \X ROWS

_compute_occupancy_distance_weighted(expected, observed, changed_squares) ==
  LET diff == {rc \in Cells : expected[rc[1]][rc[2]] # observed[rc[1]][rc[2]]}
      base_score == Cardinality(diff)
      changed == Cardinality({rc \in diff : changed_squares[rc[1]][rc[2]] # 0})
      color_error ==
        Cardinality({rc \in diff :
                       \/ expected[rc[1]][rc[2]] = 1 /\ observed[rc[1]][rc[2]] = 2
                       \/ expected[rc[1]][rc[2]] = 2 /\ observed[rc[1]][rc[2]] = 1})
  IN MismatchWeight * base_score + ChangedWeight * changed
     + ColorErrorWeight * color_error

\* the candidates of _find_best_move_weighted (lines 391-412): every legal
\* move with the distance of the occupancy it leads to, ranked
WeightedCandidates(board, curr_occupancy, changed_squares, moves) ==
  SortAscending(
    [i \in 1 .. Len(moves) |->
       [move |-> moves[i],
        score |-> _compute_occupancy_distance_weighted(
                    _fen_to_occupancy(fen(push(board, moves[i]))),
                    curr_occupancy, changed_squares)]],
    <<>>)

\* the triple _find_best_move_weighted returns for its ranked candidates;
\* best_score is float('inf') when there is no legal move and is not used then
BestWeighted(candidates) ==
  IF candidates = <<>>
    THEN [best_move |-> None, best_score |-> 0, candidates |-> <<>>]
    ELSE [best_move |-> candidates[1].move,
          best_score |-> candidates[1].score,
          candidates |-> candidates]

\* _find_best_move_weighted: (best move, best score, all candidates ranked)
_find_best_move_weighted(board, prev_occupancy, curr_occupancy, changed_squares) ==
  BestWeighted(WeightedCandidates(board, curr_occupancy, changed_squares,
                                  legal_moves(board)))

-----------------------------------------------------------------------------
(* decode.py: the tag scorer *)

\* the scores of _score_move_tags, in tenths
SourceVacated == 100
SourceUnchanged == -500
IdCarried == 1000
DestinationEmpty == -100
DestinationOtherId == -500
TypeMatch == 500
TypeMismatch == -200
RookCarried == 500

\* a mapping that binds the ID of every nonzero cell, piece or no piece
_infer_id_mapping_every_cell(ids_grid, board) ==
  LET Id(s) == ids_grid[7 - square_rank(s)][square_file(s)]
  IN [k \in {Id(s) : s \in {t \in SQUARES : Id(t) # 0}} |->
        board.pcs[CHOOSE s \in SQUARES : Id(s) = k /\ \A t \in SQUARES : Id(t) = k => t <= s]]

\* _infer_id_mapping: the dict tag id -> piece, as a function on its keys.
\* chess.SQUARES is walked in ascending order, so of two occupied squares
\* showing the same id the higher one decides the entry.
_infer_id_mapping(ids_grid, board) ==
  LET Id(s) == ids_grid[7 - square_rank(s)][square_file(s)]
      Of(bound) ==
        [k \in {Id(s) : s \in bound} |->
           board.pcs[CHOOSE s \in bound :
                       Id(s) = k /\ \A t \in bound : Id(t) = k => t <= s]]
  IN Of({s \in SQUARES : board.pcs[s] # 0 /\ Id(s) # 0})

\* a score that looks at the source square only
_score_move_tags_source_only(move, board, prev_ids, curr_ids, id_map) ==
  IF curr_ids[7 - square_rank(move.from_square)][square_file(move.from_square)] = 0
    THEN SourceVacated
    ELSE 0

\* a source rule that tests "unchanged" before "empty"
Rule1_unchanged_first(prev_id_at_src, curr_id_at_src) ==
  IF curr_id_at_src = prev_id_at_src THEN SourceUnchanged
  ELSE IF curr_id_at_src = 0 THEN SourceVacated
  ELSE 0

\* rule 1 of _score_move_tags (lines 151-156): the source should be empty
Rule1(prev_id_at_src, curr_id_at_src) ==
  IF curr_id_at_src = 0 THEN SourceVacated
  ELSE IF curr_id_at_src = prev_id_at_src THEN SourceUnchanged
  ELSE 0

\* a destination rule that takes a foreign ID for an undetected one
Rule2_foreign_as_empty(moving_piece, id_map, prev_id_at_src, curr_id_at_dst) ==
  IF prev_id_at_src # 0
    THEN IF curr_id_at_dst = prev_id_at_src THEN IdCarried ELSE DestinationEmpty
    ELSE 0

\* rule 2 of _score_move_tags (lines 158-180): the destination should show
\* the ID of the source, or, when the source showed none, an ID of the type
\* of the moving piece
Rule2(moving_piece, id_map, prev_id_at_src, curr_id_at_dst) ==
  IF prev_id_at_src # 0
    THEN IF curr_id_at_dst = prev_id_at_src THEN IdCarried
         ELSE IF curr_id_at_dst = 0 THEN DestinationEmpty
         ELSE DestinationOtherId
  ELSE IF curr_id_at_dst # 0 /\ curr_id_at_dst \in DOMAIN id_map
    THEN IF /\ piece_type(id_map[curr_id_at_dst]) = piece_type(moving_piece)
            /\ piece_color(id_map[curr_id_at_dst]) = piece_color(moving_piece)
           THEN TypeMatch
           ELSE TypeMismatch
  ELSE 0

\* a castling rule that does not ask whether the rook had an ID
Rule3_unread_rook(board, move, to_sq, prev_ids, curr_ids) ==
  LET rook_from == IF to_sq = G1 THEN <<7, 7>>
                   ELSE IF to_sq = C1 THEN <<7, 0>>
                   ELSE IF to_sq = G8 THEN <<0, 7>>
                   ELSE <<0, 0>>
      rook_to == IF to_sq = G1 THEN <<7, 5>>
                 ELSE IF to_sq = C1 THEN <<7, 3>>
                 ELSE IF to_sq = G8 THEN <<0, 5>>
                 ELSE IF to_sq = C8 THEN <<0, 3>>
                 ELSE <<0, 0>>
  IN IF /\ is_castling(board, move)
        /\ curr_ids[rook_to[1]][rook_to[2]] = prev_ids[rook_from[1]][rook_from[2]]
       THEN RookCarried ELSE 0

\* rule 3 of _score_move_tags (lines 182-205): the rook of a castling move
Rule3(board, move, to_sq, prev_ids, curr_ids) ==
  LET rook_from == IF to_sq = G1 THEN <<7, 7>>
                   ELSE IF to_sq = C1 THEN <<7, 0>>
                   ELSE IF to_sq = G8 THEN <<0, 7>>
                   ELSE <<0, 0>>
      rook_to == IF to_sq = G1 THEN <<7, 5>>
                 ELSE IF to_sq = C1 THEN <<7, 3>>
                 ELSE IF to_sq = G8 THEN <<0, 5>>
                 ELSE IF to_sq = C8 THEN <<0, 3>>
                 ELSE <<0, 0>>
      rook_id == prev_ids[rook_from[1]][rook_from[2]]
      curr_rook_dst == curr_ids[rook_to[1]][rook_to[2]]
  IN IF is_castling(board, move) /\ rook_id # 0 /\ curr_rook_dst = rook_id
       THEN RookCarried ELSE 0

_score_move_tags(move, board, prev_ids, curr_ids, id_map) ==
  LET Score(from_sq, to_sq, prev_id_at_src, curr_id_at_dst, curr_id_at_src) ==
        Rule1(prev_id_at_src, curr_id_at_src)
          + Rule2(board.pcs[from_sq], id_map, prev_id_at_src, curr_id_at_dst)
          + Rule3(board, move, to_sq, prev_ids, curr_ids)
  IN Score(move.from_square, move.to_square,
           prev_ids[7 - square_rank(move.from_square)][square_file(move.from_square)],
           curr_ids[7 - square_rank(move.to_square)][square_file(move.to_square)],
           curr_ids[7 - square_rank(move.from_square)][square_file(move.from_square)])

\* the candidates of _find_best_move_tags (lines 111-118): every legal move
\* with its score, ranked
TagCandidates(board, prev_ids, curr_ids, id_map, moves) ==
  SortDescending(
    [i \in 1 .. Len(moves) |->
       [move |-> moves[i],
        score |-> _score_move_tags(moves[i], board, prev_ids, curr_ids, id_map)]],
    <<>>)

\* the triple _find_best_move_tags returns for its ranked candidates
BestTagged(candidates) ==
  IF candidates = <<>>
    THEN [best_move |-> None, best_score |-> 0, candidates |-> <<>>]
    ELSE [best_move |-> candidates[1].move,
          best_score |-> candidates[1].score,
          candidates |-> Prefix(candidates, 3)]

\* _find_best_move_tags: (best move, best score, the three best candidates)
_find_best_move_tags(board, prev_ids, curr_ids, id_map) ==
  BestTagged(TagCandidates(board, prev_ids, curr_ids, id_map, legal_moves(board)))

-----------------------------------------------------------------------------
(* The input of a decode run: the filmed game.  The frames handed to the
   decoder are observations of a physical board (world) on which a game is
   played from the starting arrangement the decoder is told; every piece
   carries a tag.  A frame shows the board after the next move of the game,
   or the same board again, and at most MaxNoise cells of a film are misread. *)

\* bounds of the model
MaxFrames == 3
MaxNoise == 1

\* initial_fen = None
NoFen == [board |-> <<>>, turn |-> "", castling |-> <<>>, ep |-> ""]

\* white mates with Ra8; after Rh1 black has the single move Kf8
\* "6k1/8/6K1/8/8/8/8/R7 w - - 0 1"
MateInOneFen ==
  [board |->
       <<"6", "k", "1", "/", "8", "/", "6", "K", "1", "/", "8", "/", "8",
       "/", "8", "/", "8", "/", "R", "7">>,
   turn |-> "w", castling |-> <<"-">>, ep |-> "-"]

\* black to move has no legal move
\* "7k/5Q2/6K1/8/8/8/8/8 b - - 0 1"
StalemateFen ==
  [board |->
       <<"7", "k", "/", "5", "Q", "2", "/", "6", "K", "1", "/", "8", "/",
       "8", "/", "8", "/", "8", "/", "8">>,
   turn |-> "b", castling |-> <<"-">>, ep |-> "-"]

\* white has exactly the two legal moves h6 and f6
\* "8/8/8/5P1P/8/k2b4/8/K7 w - - 0 1"
TwoPawnsFen ==
  [board |->
       <<"8", "/", "8", "/", "8", "/", "5", "P", "1", "P", "/", "8", "/",
       "k", "2", "b", "4", "/", "8", "/", "K", "7">>,
   turn |-> "w", castling |-> <<"-">>, ep |-> "-"]

\* white can take the rook with the pawn and promote to any of four pieces
\* "r3k3/1P6/8/8/8/8/8/4K3 w - - 0 1"
PromotionFen ==
  [board |->
       <<"r", "3", "k", "3", "/", "1", "P", "6", "/", "8", "/", "8", "/", "8",
       "/", "8", "/", "8", "/", "4", "K", "3">>,
   turn |-> "w", castling |-> <<"-">>, ep |-> "-"]

\* white can castle on the king's side
\* "4k3/8/8/8/8/8/8/4K2R w K - 0 1"
CastlingFen ==
  [board |->
       <<"4", "k", "3", "/", "8", "/", "8", "/", "8", "/", "8", "/", "8",
       "/", "8", "/", "4", "K", "2", "R">>,
   turn |-> "w", castling |-> <<"K">>, ep |-> "-"]

\* white has four moves, one for each pawn
\* "8/8/8/1P1P1P1P/8/k2b4/8/K7 w - - 0 1"
FourPawnsFen ==
  [board |->
       <<"8", "/", "8", "/", "8", "/", "1", "P", "1", "P", "1", "P", "1", "P",
       "/", "8", "/", "k", "2", "b", "4", "/", "8", "/", "K", "7">>,
   turn |-> "w", castling |-> <<"-">>, ep |-> "-"]

InitialFens ==
  {NoFen, MateInOneFen, StalemateFen, TwoPawnsFen, PromotionFen, CastlingFen,
   FourPawnsFen}

\* the moves (from-square, to-square) the filmed games are made of
Book ==
  {<<12, 28>>, <<6, 21>>, <<52, 36>>,     \* e2e4, g1f3, e7e5
   <<0, 56>>, <<0, 7>>, <<62, 61>>,       \* a1a8, a1h1, g8f8
   <<39, 47>>, <<37, 45>>, <<16, 17>>,    \* h5h6, f5f6, a3b3
   <<49, 56>>,                            \* b7xa8 with a promotion
   <<4, 6>>}                              \* e1g1, castling

\* the misreadings of a cell, as <<square, value read>>: an occupancy cell
\* read DARK, an occupancy cell outside {0, 1, 2}; a tag not detected (on
\* f3, on f6, on f5), a negative tag id
OccupancyNoise == {<<28, 2>>, <<16, 3>>}

IdNoise == {<<21, 0>>, <<16, -1>>, <<45, 0>>, <<37, 0>>}

\* the position the decoders start from (decode.py lines 26-29, 234-237)
StartBoard(initial_fen) ==
  IF initial_fen = NoFen THEN Board(STARTING_FEN) ELSE Board(initial_fen)

\* the tag glued on the piece that starts on square s: 64 different tags
\* 1 .. 64, of which 5 is on e2 and 7 on g1
TagOf(s) == ((21 * s + 8) % 64) + 1

StartWorld(initial_fen) ==
  LET pos == StartBoard(initial_fen)
  IN [pos |-> pos,
      tags |-> [s \in SQUARES |-> IF pos.pcs[s] # 0 THEN TagOf(s) ELSE 0]]

\* the next moves of the filmed game: the legal moves that are in the book
WorldMoves(w) ==
  LET Of(moves) ==
        {moves[i] : i \in {j \in 1 .. Len(moves) :
                             <<moves[j].from_square, moves[j].to_square>> \in Book}}
  IN Of(legal_moves(w.pos))

\* the physical board after a move: the tags travel with the pieces
WorldAfter(w, m) ==
  LET f == m.from_square
      t == m.to_square
      Carried(after, moved) ==
        [pos |-> after,
         tags |-> IF is_castling(w.pos, m)
                    THEN [moved EXCEPT ![IF t > f THEN f + 3 ELSE f - 4] = 0,
                                       ![IF t > f THEN f + 1 ELSE f - 1] =
                                          w.tags[IF t > f THEN f + 3 ELSE f - 4]]
                    ELSE [s \in SQUARES |-> IF after.pcs[s] = 0 THEN 0 ELSE moved[s]]]
  IN Carried(push(w.pos, m), [w.tags EXCEPT ![f] = 0, ![t] = w.tags[f]])

\* what a camera sees
OccupancyOf(w) ==
  [row \in ROWS |-> [col \in ROWS |->
     LET p == w.pos.pcs[square(col, 7 - row)]
     IN IF p = 0 THEN 0 ELSE IF piece_color(p) THEN 1 ELSE 2]]

IdsOf(w) == [row \in ROWS |-> [col \in ROWS |-> w.tags[square(col, 7 - row)]]]

Misread(grid, n) ==
  [grid EXCEPT ![7 - square_rank(n[1])][square_file(n[1])] = n[2]]

Observe(m, w) ==
  IF m = "states" THEN [occupancy |-> OccupancyOf(w)] ELSE [piece_ids |-> IdsOf(w)]

ObserveNoisy(m, w, n) ==
  IF m = "states" THEN [occupancy |-> Misread(OccupancyOf(w), n)]
  ELSE [piece_ids |-> Misread(IdsOf(w), n)]

NoiseOf(m) == IF m = "states" THEN OccupancyNoise ELSE IdNoise

-----
(* The decoders as a state machine *)

VARIABLES
  world,               \* the physical board being filmed
  noise_used,          \* the number of misread cells so far
  mode,                \* "states": decode_moves_from_states, "tags": ..._from_tags
  initial_fen,         \* argument initial_fen (NoFen = None)
  board_states,        \* argument board_states
  output_dir,          \* argument output_dir
  uncertain_threshold, \* argument uncertain_threshold
  dist_threshold,      \* argument dist_threshold
  pc,                  \* "filming", "loop", "returned", "raised"
  error,               \* the exception a raised run ended with
  board,               \* local board, the Position
  id_map,              \* local id_map (tags)
  prev_occupancy,      \* local prev_occupancy (states)
  step_idx,            \* the loop index (step_idx, i)
  moves_san,           \* local moves_san
  confidence_list,     \* local confidence_list
  uncertain_moves,     \* local uncertain_moves (states)
  last,                \* the locals of the latest loop iteration
  files,               \* the artifacts written under output_dir
  twin                 \* a second run on the same frames (PairSpec only)

envVars == <<world, noise_used, mode, initial_fen, board_states>>

runVars == <<output_dir, uncertain_threshold, dist_threshold, pc, error, board,
             id_map, prev_occupancy, step_idx, moves_san, confidence_list,
             uncertain_moves, last, files>>

vars == <<envVars, runVars, twin>>

\* output_dir: None, a directory that can be written, one that cannot
NoDir == ""

Writable(dir) == dir = "debug"

NoGrid == [r \in ROWS |-> [c \in ROWS |-> 0]]

NoStep == [best_move |-> None, best_score |-> 0, candidates |-> <<>>,
           uncertain |-> FALSE]

EmptyMap == [k \in {} |-> 0]

\* the arguments and locals of a run that has not been called yet
NoRun ==
  [output_dir |-> NoDir,
   uncertain_threshold |-> DefaultUncertainThreshold,
   dist_threshold |-> DefaultDistThreshold,
   pc |-> "filming",
   error |-> "",
   board |-> StartBoard(NoFen),
   id_map |-> EmptyMap,
   prev_occupancy |-> NoGrid,
   step_idx |-> 0,
   moves_san |-> <<>>,
   confidence_list |-> <<>>,
   uncertain_moves |-> <<>>,
   last |-> NoStep,
   files |-> {}]

\* the arguments and locals of the run, as one record
Self ==
  [output_dir |-> output_dir,
   uncertain_threshold |-> uncertain_threshold,
   dist_threshold |-> dist_threshold,
   pc |-> pc,
   error |-> error,
   board |-> board,
   id_map |-> id_map,
   prev_occupancy |-> prev_occupancy,
   step_idx |-> step_idx,
   moves_san |-> moves_san,
   confidence_list |-> confidence_list,
   uncertain_moves |-> uncertain_moves,
   last |-> last,
   files |-> files]

\* the run continues as r
Becomes(r) ==
  /\ output_dir' = r.output_dir
  /\ uncertain_threshold' = r.uncertain_threshold
  /\ dist_threshold' = r.dist_threshold
  /\ pc' = r.pc
  /\ error' = r.error
  /\ board' = r.board
  /\ id_map' = r.id_map
  /\ prev_occupancy' = r.prev_occupancy
  /\ step_idx' = r.step_idx
  /\ moves_san' = r.moves_san
  /\ confidence_list' = r.confidence_list
  /\ uncertain_moves' = r.uncertain_moves
  /\ last' = r.last
  /\ files' = r.files

Init ==
  /\ mode \in {"states", "tags"}
  /\ initial_fen \in InitialFens
  /\ world = StartWorld(initial_fen)
  /\ noise_used = 0
  /\ board_states = <<>>
  /\ output_dir = NoRun.output_dir
  /\ uncertain_threshold = NoRun.uncertain_threshold
  /\ dist_threshold = NoRun.dist_threshold
  /\ pc = NoRun.pc
  /\ error = NoRun.error
  /\ board = StartBoard(initial_fen)
  /\ id_map = NoRun.id_map
  /\ prev_occupancy = NoRun.prev_occupancy
  /\ step_idx = NoRun.step_idx
  /\ moves_san = NoRun.moves_san
  /\ confidence_list = NoRun.confidence_list
  /\ uncertain_moves = NoRun.uncertain_moves
  /\ last = NoRun.last
  /\ files = NoRun.files
  /\ twin = NoRun

\* the upstream producer appends the next frame: the board as it stands
\* (the first frame, or a repeated stable frame) or after the next move
Film ==
  /\ pc = "filming"
  /\ twin.pc = "filming"
  /\ Len(board_states) < MaxFrames
  /\ \E w \in {world} \cup (IF board_states = <<>> THEN {}
                            ELSE {WorldAfter(world, m) : m \in WorldMoves(world)}) :
       /\ world' = w
       /\ \/ /\ board_states' = Append(board_states, Observe(mode, w))
             /\ noise_used' = noise_used
          \/ /\ noise_used < MaxNoise
             /\ \E n \in NoiseOf(mode) :
                  board_states' = Append(board_states, ObserveNoisy(mode, w, n))
             /\ noise_used' = noise_used + 1
  /\ UNCHANGED <<mode, initial_fen, runVars, twin>>

\* the artifacts, as <<name, index>>
Artifact(name, i) == <<name, i>>

StatesDirs ==
  {Artifact("output_dir", 0), Artifact("occupancy_maps", 0), Artifact("diff_heatmaps", 0)}

\* (output_dir, uncertain_threshold, dist_threshold) of the calls of
\* decode_moves_from_states: the defaults 0.1 and 2.0 with each kind of
\* directory, and 3.0 with 1.0
StatesArgs ==
  {<<NoDir, DefaultUncertainThreshold, DefaultDistThreshold>>,
   <<"debug", DefaultUncertainThreshold, DefaultDistThreshold>>,
   <<"readonly", DefaultUncertainThreshold, DefaultDistThreshold>>,
   <<NoDir, 30, 10>>}

\* output_dir of the calls of decode_moves_from_tags
TagsArgs == {NoDir, "debug", "readonly"}

\* decode_moves_from_states up to its loop (lines 234-259): the board, the
\* directories (mkdir raises in a directory that cannot be written), the
\* first occupancy (board_states[0] raises on an empty list) and its map
StatesCall(od, ut, dt) ==
  LET Entered(r) ==
        IF od # NoDir /\ ~Writable(od)
          THEN [r EXCEPT !.pc = "raised", !.error = "OSError"]
        ELSE IF board_states = <<>>
          THEN [r EXCEPT !.pc = "raised", !.error = "IndexError",
                         !.files = IF od # NoDir THEN StatesDirs ELSE {}]
        ELSE [r EXCEPT !.pc = "loop",
                       !.files = IF od # NoDir
                                   THEN StatesDirs \cup {Artifact("occupancy_map.png", 0)}
                                   ELSE {},
                       !.prev_occupancy = _board_state_to_occupancy(board_states[1])]
  IN Entered([NoRun EXCEPT !.output_dir = od,
                           !.uncertain_threshold = ut,
                           !.dist_threshold = dt,
                           !.board = StartBoard(initial_fen),
                           !.step_idx = 1])

CallStates ==
  /\ pc = "filming"
  /\ mode = "states"
  /\ \E a \in StatesArgs : Becomes(StatesCall(a[1], a[2], a[3]))
  /\ UNCHANGED <<envVars, twin>>

\* the classification with the gap compared by <= instead of <
IsUncertain_inclusive(candidates, best_score, ut, dt) ==
  \/ Len(candidates) > 1 /\ candidates[2].score - best_score <= ut
  \/ best_score > dt

\* the classification with the distance compared the wrong way round
IsUncertain_reversed(candidates, best_score, ut, dt) ==
  \/ Len(candidates) > 1 /\ candidates[2].score - best_score < ut
  \/ best_score < dt

\* the confidence classification of decode_moves_from_states (lines 285-291)
IsUncertain(candidates, best_score, ut, dt) ==
  \/ Len(candidates) > 1 /\ candidates[2].score - best_score < ut
  \/ best_score > dt

\* the notation of the listed candidates: board.san(c['move']) for every
\* candidate but the chosen move, asked of the board after the push
NamesReturn(B, cs, best_move) ==
  \A i \in 1 .. Len(cs) : cs[i].move = best_move \/ san_returns(B, cs[i].move)

NamedCandidates(B, cs, best_move, name) ==
  [i \in 1 .. Len(cs) |->
     [move |-> IF cs[i].move # best_move THEN san(B, cs[i].move) ELSE name,
      score |-> cs[i].score]]

\* the run ends with an exception
Raise(r, e) == [r EXCEPT !.pc = "raised", !.error = e]

\* the latest element of a list
Latest(s) == s[Len(s)]

\* an unresolved step that ends the run
StatesUnresolved_aborts(r) == Raise(r, "ValueError")

\* an iteration of decode_moves_from_states without a best move (lines
\* 275-282): the sentinel, and continue
StatesUnresolved(r) ==
  [r EXCEPT !.moves_san = Append(r.moves_san, "??"),
            !.confidence_list =
              Append(r.confidence_list,
                     [uncertain |-> TRUE, reason |-> "no_matching_move",
                      candidates |-> <<>>]),
            !.last = [best_move |-> None, best_score |-> 0, candidates |-> <<>>,
                      uncertain |-> r.last.uncertain],
            !.step_idx = r.step_idx + 1]

\* the confidence record, the maps and the end of a resolved iteration
\* (lines 313-333)
StatesRecord(r, curr_occupancy, found, uncertain) ==
  IF ~NamesReturn(r.board, Prefix(found.candidates, 3), found.best_move)
    THEN Raise(r, "AssertionError")
    ELSE [r EXCEPT
            !.confidence_list =
              Append(r.confidence_list,
                     [uncertain |-> uncertain,
                      score |-> found.best_score,
                      candidates |->
                        NamedCandidates(r.board, Prefix(found.candidates, 3),
                                        found.best_move, Latest(r.moves_san))]),
            !.files =
              IF r.output_dir # NoDir
                THEN r.files \cup {Artifact("occupancy_map.png", r.step_idx),
                                   Artifact("diff_heatmap.png", r.step_idx)}
                ELSE r.files,
            !.prev_occupancy = curr_occupancy,
            !.step_idx = r.step_idx + 1]

\* the record of an uncertain move (lines 299-311)
StatesFlag(r, curr_occupancy, found, uncertain) ==
  IF uncertain /\ ~NamesReturn(r.board, Prefix(found.candidates, 5), found.best_move)
    THEN Raise(r, "AssertionError")
    ELSE StatesRecord(
           IF uncertain
             THEN [r EXCEPT
                     !.uncertain_moves =
                       Append(r.uncertain_moves,
                              [step |-> r.step_idx, move |-> Latest(r.moves_san),
                               score |-> found.best_score,
                               candidates |->
                                 NamedCandidates(r.board, Prefix(found.candidates, 5),
                                                 found.best_move,
                                                 Latest(r.moves_san))])]
             ELSE r,
           curr_occupancy, found, uncertain)

\* the notation of the move, asked of the board after the push (lines
\* 295-296)
StatesNotate(r, curr_occupancy, found, uncertain) ==
  IF ~san_returns(r.board, found.best_move)
    THEN Raise(r, "AssertionError")
    ELSE StatesFlag([r EXCEPT !.moves_san =
                                Append(r.moves_san, san(r.board, found.best_move))],
                    curr_occupancy, found, uncertain)

\* an iteration of decode_moves_from_states with a best move (lines 284-333):
\* the push, then the notation, the records and the maps
StatesResolved(r, curr_occupancy, found, uncertain) ==
  StatesNotate([r EXCEPT !.board = push(r.board, found.best_move),
                         !.last = [best_move |-> found.best_move,
                                   best_score |-> found.best_score,
                                   candidates |-> found.candidates,
                                   uncertain |-> uncertain]],
               curr_occupancy, found, uncertain)

\* the choice of an iteration of decode_moves_from_states (lines 275-291)
StatesDecide(r, curr_occupancy, found) ==
  IF found.best_move = None
    THEN StatesUnresolved(r)
    ELSE StatesResolved(r, curr_occupancy, found,
                        IsUncertain(found.candidates, found.best_score,
                                    r.uncertain_threshold, r.dist_threshold))

\* the search of an iteration of decode_moves_from_states (lines 265-273)
StatesSearch(r, curr_occupancy) ==
  StatesDecide(r, curr_occupancy,
               _find_best_move_weighted(
                 r.board, r.prev_occupancy, curr_occupancy,
                 _compute_changed_squares(r.prev_occupancy, curr_occupancy)))

\* one iteration of the loop of decode_moves_from_states (lines 262-333), as
\* the run it leaves
StatesIteration(r) ==
  StatesSearch(r, _board_state_to_occupancy(board_states[r.step_idx + 1]))

StatesStep ==
  /\ pc = "loop"
  /\ mode = "states"
  /\ step_idx < Len(board_states)
  /\ Becomes(StatesIteration(Self))
  /\ UNCHANGED <<envVars, twin>>

\* the end of decode_moves_from_states (lines 335-342)
StatesEnd(r) ==
  [r EXCEPT !.pc = "returned",
            !.files = IF r.output_dir # NoDir /\ r.uncertain_moves # <<>>
                        THEN r.files \cup {Artifact("uncertain_moves.json", 0)}
                        ELSE r.files]

StatesReturn ==
  /\ pc = "loop"
  /\ mode = "states"
  /\ step_idx >= Len(board_states)
  /\ Becomes(StatesEnd(Self))
  /\ UNCHANGED <<envVars, twin>>

\* a call that loses the mapping once it has been written out
TagsCall_remaps(od) ==
  IF board_states = <<>>
    THEN Raise([NoRun EXCEPT !.output_dir = od, !.board = StartBoard(initial_fen),
                             !.step_idx = 1], "IndexError")
    ELSE [NoRun EXCEPT !.output_dir = od,
                       !.board = StartBoard(initial_fen),
                       !.step_idx = 1,
                       !.pc = "loop",
                       !.id_map = IF od = NoDir
                                    THEN _infer_id_mapping(board_states[1].piece_ids,
                                                           StartBoard(initial_fen))
                                    ELSE EmptyMap,
                       !.files = IF Writable(od) THEN {Artifact("id_mapping.json", 0)}
                                 ELSE {}]

\* decode_moves_from_tags up to its loop (lines 26-48); a failure to write
\* id_mapping.json is caught
TagsCall(od) ==
  LET Entered(r) ==
        IF board_states = <<>>
          THEN [r EXCEPT !.pc = "raised", !.error = "IndexError"]
          ELSE [r EXCEPT !.pc = "loop",
                         !.id_map = _infer_id_mapping(board_states[1].piece_ids,
                                                      StartBoard(initial_fen)),
                         !.files = IF Writable(od) THEN {Artifact("id_mapping.json", 0)}
                                   ELSE {}]
  IN Entered([NoRun EXCEPT !.output_dir = od,
                           !.board = StartBoard(initial_fen),
                           !.step_idx = 1])

CallTags ==
  /\ pc = "filming"
  /\ mode = "tags"
  /\ \E od \in TagsArgs : Becomes(TagsCall(od))
  /\ UNCHANGED <<envVars, twin>>

\* the flag set as on an unresolved step
TagsUncertain_set == TRUE

\* the uncertain flag of a step of decode_moves_from_tags that found a move
\* (line 64)
TagsUncertain == FALSE

\* an unresolved iteration that passes the move to the other side
TagsUnresolved_passes(r, found) ==
  [r EXCEPT !.moves_san = Append(r.moves_san, "??"),
            !.confidence_list =
              Append(r.confidence_list,
                     [uncertain |-> TRUE, reason |-> "no_matching_move",
                      score |-> 0, candidates |-> <<>>]),
            !.last = [best_move |-> found.best_move, best_score |-> found.best_score,
                      candidates |-> found.candidates, uncertain |-> TRUE],
            !.board = [r.board EXCEPT !.turn = ~r.board.turn],
            !.step_idx = r.step_idx + 1]

\* an iteration of decode_moves_from_tags without a best move (lines 71-78)
TagsUnresolved(r, found) ==
  [r EXCEPT !.moves_san = Append(r.moves_san, "??"),
            !.confidence_list =
              Append(r.confidence_list,
                     [uncertain |-> TRUE, reason |-> "no_matching_move",
                      score |-> 0, candidates |-> <<>>]),
            !.last = [best_move |-> found.best_move, best_score |-> found.best_score,
                      candidates |-> found.candidates, uncertain |-> TRUE],
            !.step_idx = r.step_idx + 1]

\* a confidence record that takes its score from the last listed candidate
TagsRecord_last_score(r, found) ==
  IF ~NamesReturn(r.board, found.candidates, found.best_move)
    THEN Raise(r, "AssertionError")
    ELSE [r EXCEPT
            !.confidence_list =
              Append(r.confidence_list,
                     [uncertain |-> TagsUncertain,
                      score |-> found.candidates[Len(found.candidates)].score,
                      candidates |->
                        NamedCandidates(r.board, found.candidates,
                                        found.best_move, Latest(r.moves_san))]),
            !.step_idx = r.step_idx + 1]

\* the confidence record of a resolved iteration (lines 63-70): the notation
\* of the other candidates is asked of the board after the push
TagsRecord(r, found) ==
  IF ~NamesReturn(r.board, found.candidates, found.best_move)
    THEN Raise(r, "AssertionError")
    ELSE [r EXCEPT
            !.confidence_list =
              Append(r.confidence_list,
                     [uncertain |-> TagsUncertain,
                      score |-> found.best_score,
                      candidates |->
                        NamedCandidates(r.board, found.candidates,
                                        found.best_move, Latest(r.moves_san))]),
            !.step_idx = r.step_idx + 1]

\* a resolved iteration that records its move and leaves the board as it was
TagsResolved_unpushed(r, found) ==
  TagsRecord([r EXCEPT !.moves_san = Append(r.moves_san, san(r.board, found.best_move)),
                       !.last = [best_move |-> found.best_move,
                                 best_score |-> found.best_score,
                                 candidates |-> found.candidates,
                                 uncertain |-> TagsUncertain]],
             found)

\* a resolved iteration that infers the mapping again from the frame it
\* has just explained
TagsResolved_remaps(r, found) ==
  TagsRecord([r EXCEPT !.moves_san = Append(r.moves_san, san(r.board, found.best_move)),
                       !.board = push(r.board, found.best_move),
                       !.last = [best_move |-> found.best_move,
                                 best_score |-> found.best_score,
                                 candidates |-> found.candidates,
                                 uncertain |-> TagsUncertain],
                       !.id_map = _infer_id_mapping(board_states[r.step_idx + 1].piece_ids,
                                                    push(r.board, found.best_move))],
             found)

\* an iteration of decode_moves_from_tags with a best move (lines 60-70): the
\* notation, the push, the records
TagsResolved(r, found) ==
  TagsRecord([r EXCEPT !.moves_san = Append(r.moves_san, san(r.board, found.best_move)),
                       !.board = push(r.board, found.best_move),
                       !.last = [best_move |-> found.best_move,
                                 best_score |-> found.best_score,
                                 candidates |-> found.candidates,
                                 uncertain |-> TagsUncertain]],
             found)

\* a choice that takes a best move without a positive score for no move
TagsDecide_rejects_poor(r, found) ==
  IF Truthy(found.best_move) /\ found.best_score > 0
    THEN TagsResolved(r, found)
    ELSE TagsUnresolved(r, found)

\* the choice of an iteration of decode_moves_from_tags (lines 59-78)
TagsDecide(r, found) ==
  IF Truthy(found.best_move) THEN TagsResolved(r, found) ELSE TagsUnresolved(r, found)

\* one iteration of the loop of decode_moves_from_tags (lines 52-78)
TagsIteration(r) ==
  TagsDecide(r, _find_best_move_tags(r.board, board_states[r.step_idx].piece_ids,
                                     board_states[r.step_idx + 1].piece_ids, r.id_map))

TagsStep ==
  /\ pc = "loop"
  /\ mode = "tags"
  /\ step_idx < Len(board_states)
  /\ Becomes(TagsIteration(Self))
  /\ UNCHANGED <<envVars, twin>>

\* the end of decode_moves_from_tags (line 80)
TagsEnd(r) == [r EXCEPT !.pc = "returned"]

TagsReturn ==
  /\ pc = "loop"
  /\ mode = "tags"
  /\ step_idx >= Len(board_states)
  /\ Becomes(TagsEnd(Self))
  /\ UNCHANGED <<envVars, twin>>

Next ==
  \/ Film
  \/ CallStates
  \/ StatesStep
  \/ StatesReturn
  \/ CallTags
  \/ TagsStep
  \/ TagsReturn

Spec == Init /\ [][Next]_vars

-----------------------------------------------------------------------------
(* Two runs of decode_moves_from_states on the same frames, called with
   thresholds of which the second pair raises one threshold of the first *)

\* the (uncertain_threshold, dist_threshold) pairs of the paired runs
PairThresholds == {1, 35} \X {10, 30}

PairArgs ==
  {p \in PairThresholds \X PairThresholds :
     \/ p[1][1] = p[2][1] /\ p[1][2] < p[2][2]
     \/ p[1][2] = p[2][2] /\ p[1][1] < p[2][1]}

InLoop(r) == r.pc = "loop" /\ r.step_idx < Len(board_states)

AtEnd(r) == r.pc = "loop" /\ r.step_idx >= Len(board_states)

PairInit == Init /\ mode = "states"

PairCall ==
  /\ pc = "filming"
  /\ twin.pc = "filming"
  /\ \E p \in PairArgs :
       /\ Becomes(StatesCall(NoDir, p[1][1], p[1][2]))
       /\ twin' = StatesCall(NoDir, p[2][1], p[2][2])
  /\ UNCHANGED envVars

PairStep ==
  /\ InLoop(Self) \/ InLoop(twin)
  /\ Becomes(IF InLoop(Self) THEN StatesIteration(Self) ELSE Self)
  /\ twin' = IF InLoop(twin) THEN StatesIteration(twin) ELSE twin
  /\ UNCHANGED envVars

PairReturn ==
  /\ ~InLoop(Self) /\ ~InLoop(twin)
  /\ AtEnd(Self) \/ AtEnd(twin)
  /\ Becomes(IF AtEnd(Self) THEN StatesEnd(Self) ELSE Self)
  /\ twin' = IF AtEnd(twin) THEN StatesEnd(twin) ELSE twin
  /\ UNCHANGED envVars

PairNext ==
  \/ Film
  \/ PairCall
  \/ PairStep
  \/ PairReturn

PairSpec == PairInit /\ [][PairNext]_vars

-----------------------------------------------------------------------------
(* Two runs of the same decoder on the same frames with the default
   thresholds: the run of the variables is given an output directory,
   the twin run is given none *)

DirCall ==
  /\ pc = "filming"
  /\ twin.pc = "filming"
  /\ \E od \in TagsArgs \ {NoDir} :
       Becomes(IF mode = "states"
                 THEN StatesCall(od, DefaultUncertainThreshold, DefaultDistThreshold)
                 ELSE TagsCall(od))
  /\ twin' = IF mode = "states"
               THEN StatesCall(NoDir, DefaultUncertainThreshold, DefaultDistThreshold)
               ELSE TagsCall(NoDir)
  /\ UNCHANGED envVars

DirStep ==
  /\ InLoop(Self) \/ InLoop(twin)
  /\ Becomes(IF ~InLoop(Self) THEN Self
             ELSE IF mode = "states" THEN StatesIteration(Self)
             ELSE TagsIteration(Self))
  /\ twin' = IF ~InLoop(twin) THEN twin
             ELSE IF mode = "states" THEN StatesIteration(twin)
             ELSE TagsIteration(twin)
  /\ UNCHANGED envVars

DirReturn ==
  /\ ~InLoop(Self) /\ ~InLoop(twin)
  /\ AtEnd(Self) \/ AtEnd(twin)
  /\ Becomes(IF ~AtEnd(Self) THEN Self
             ELSE IF mode = "states" THEN StatesEnd(Self)
             ELSE TagsEnd(Self))
  /\ twin' = IF ~AtEnd(twin) THEN twin
             ELSE IF mode = "states" THEN StatesEnd(twin)
             ELSE TagsEnd(twin)
  /\ UNCHANGED envVars

DirNext ==
  \/ Film
  \/ DirCall
  \/ DirStep
  \/ DirReturn

DirSpec == Init /\ [][DirNext]_vars

-----------------------------------------------------------------------------
(* The properties *)

Range(s) == {s[i] : i \in 1 .. Len(s)}

\* legality stated from the rules: the move is generated for the side to
\* move and does not leave its king attacked
IsLegalIn(B, m) == m \in Range(pseudo_legal_moves(B)) /\ is_safe(B, m)

\* C1: in both modes a step changes the position only by pushing one move,
\* and that move is legal in the position as it was before the step
C1_CommittedMoveIsLegal ==
  [][board' # board =>
       /\ Len(board'.move_stack) = Len(board.move_stack) + 1
       /\ IsLegalIn(board, Latest(board'.move_stack))
       /\ board' = push(board, Latest(board'.move_stack))]_vars

\* C1 witness: a tag run has committed two moves, one of each side
C1_Witness ==
  /\ mode = "tags"
  /\ Len(board.move_stack) = 2
  /\ IsLegalIn(StartBoard(initial_fen), board.move_stack[1])

\* every cell of every frame is in its domain: an occupancy in {0, 1, 2}, a
\* tag id not negative
WellFormed ==
  \A i \in 1 .. Len(board_states) : \A rc \in Cells :
    IF mode = "states"
      THEN board_states[i].occupancy[rc[1]][rc[2]] \in {0, 1, 2}
      ELSE board_states[i].piece_ids[rc[1]][rc[2]] >= 0

\* C2 (as the spec states it): a run on n >= 2 well-formed frames with no
\* output directory does not raise, and once it has returned it holds n - 1
\* moves and n - 1 confidence records
C2_RunCompletes ==
  (WellFormed /\ Len(board_states) >= 2 /\ output_dir = NoDir) =>
    /\ pc # "raised"
    /\ pc = "returned" =>
         /\ Len(moves_san) = Len(board_states) - 1
         /\ Len(confidence_list) = Len(board_states) - 1

\* C3: a step taken in a position without a legal move records "??", leaves
\* the position as it was and goes on to the next pair of frames
C3_UnresolvedStep ==
  [][(pc = "loop" /\ step_idx < Len(board_states) /\ legal_moves(board) = <<>>) =>
       /\ moves_san' = Append(moves_san, "??")
       /\ Len(confidence_list') = Len(confidence_list) + 1
       /\ Latest(confidence_list').uncertain
       /\ board' = board
       /\ pc' = "loop"
       /\ step_idx' = step_idx + 1]_vars

\* C3 witness: a run has returned after two unresolved steps, the position
\* still the one it started from
C3_Witness ==
  /\ pc = "returned"
  /\ moves_san = <<"??", "??">>
  /\ board = StartBoard(initial_fen)

\* C4 (as the spec states it): a run on frames of which one has a cell out
\* of its domain never returns a result
C4_MalformedAborts ==
  (~WellFormed /\ Len(board_states) >= 2) => pc # "returned"

\* C5 (as the spec states it): a run on fewer than 2 frames never returns a
\* result
C5_InsufficientData == Len(board_states) < 2 => pc # "returned"

\* C6: the flag of a resolved step of the occupancy decoder is exactly (a
\* second candidate exists and is less than uncertain_threshold behind the
\* best) or (the best score is more than dist_threshold); the defaults are
\* 0.1 and 2.0
C6_UncertainRule ==
  /\ NoRun.uncertain_threshold = 1 /\ NoRun.dist_threshold = 20
  /\ (mode = "states" /\ last.best_move # None) =>
       (last.uncertain <=>
          \/ /\ Len(last.candidates) >= 2
             /\ last.candidates[2].score - last.best_score < uncertain_threshold
          \/ last.best_score > dist_threshold)

\* C6 witness: a resolved step whose candidates are exactly
\* uncertain_threshold apart and whose best score is within dist_threshold,
\* not flagged
C6_Witness ==
  /\ mode = "states"
  /\ last.best_move # None
  /\ Len(last.candidates) >= 2
  /\ last.candidates[2].score - last.best_score = uncertain_threshold
  /\ last.best_score <= dist_threshold
  /\ ~last.uncertain

\* C7: in tag mode a record of a found move has uncertain = false, and a
\* record with uncertain = true is the record of an unresolved step
C7_TagsNeverUncertain ==
  mode = "tags" =>
    \A i \in 1 .. Len(confidence_list) :
      IF moves_san[i] = "??"
        THEN /\ confidence_list[i].uncertain
             /\ confidence_list[i].candidates = <<>>
        ELSE /\ ~confidence_list[i].uncertain
             /\ confidence_list[i].candidates # <<>>

\* C7 witness: a tag run has recorded a found move whose two best
\* candidates tie at a negative score
C7_Witness ==
  /\ mode = "tags"
  /\ pc = "returned"
  /\ Len(confidence_list) >= 1
  /\ moves_san[1] # "??"
  /\ Len(confidence_list[1].candidates) >= 2
  /\ confidence_list[1].candidates[1].score = confidence_list[1].candidates[2].score
  /\ confidence_list[1].score < 0

\* the number of steps a run has flagged uncertain: the records that say
\* so, and the step in flight when the run raised
Flagged(r) ==
  Cardinality({i \in 1 .. Len(r.confidence_list) : r.confidence_list[i].uncertain})
  + (IF r.error = "AssertionError" /\ r.last.uncertain THEN 1 ELSE 0)

\* C9: of two occupancy runs on the same frames the committed moves are the
\* same whatever the thresholds; with uncertain_threshold equal, the run
\* with the higher dist_threshold flags no more steps; with dist_threshold
\* equal, the run with the higher uncertain_threshold flags no fewer
C9_ThresholdMonotone ==
  twin.pc # "filming" =>
    /\ twin.board = board
    /\ twin.moves_san = moves_san
    /\ twin.step_idx = step_idx
    /\ (twin.uncertain_threshold = uncertain_threshold
        /\ twin.dist_threshold >= dist_threshold) => Flagged(twin) <= Flagged(Self)
    /\ (twin.dist_threshold = dist_threshold
        /\ twin.uncertain_threshold >= uncertain_threshold) =>
         Flagged(twin) >= Flagged(Self)

\* C9 witness: the run with the higher dist_threshold has flagged fewer
\* steps after committing the same move
C9_Witness ==
  /\ twin.pc # "filming"
  /\ board.move_stack # <<>>
  /\ twin.uncertain_threshold = uncertain_threshold
  /\ twin.dist_threshold > dist_threshold
  /\ Flagged(twin) < Flagged(Self)

\* Scenario A: the starting occupancy, then e2 empty and e4 LIGHT
ScenarioA ==
  /\ mode = "states"
  /\ initial_fen = NoFen
  /\ board_states =
       <<Observe("states", StartWorld(NoFen)),
         Observe("states", WorldAfter(StartWorld(NoFen), Move(12, 28)))>>
  /\ output_dir = NoDir

\* C10 (as the spec states it): the run on Scenario A completes its step
\* with e2-e4 committed, "e4" recorded, score 0 and uncertain = false
C10_ScenarioA ==
  (ScenarioA /\ pc \in {"returned", "raised"}) =>
    /\ pc = "returned"
    /\ board = push(StartBoard(NoFen), Move(12, 28))
    /\ moves_san = <<"e4">>
    /\ Len(confidence_list) = 1
    /\ confidence_list[1].score = 0
    /\ ~confidence_list[1].uncertain

\* Scenario C: the pawn on b7 takes the rook on a8; the four promotions lead
\* to the same occupancy, so the four captures are at the same distance 0
ScenarioC ==
  /\ mode = "states"
  /\ initial_fen = PromotionFen
  /\ board_states =
       <<Observe("states", StartWorld(PromotionFen)),
         Observe("states", WorldAfter(StartWorld(PromotionFen), Promo(49, 56, QUEEN)))>>
  /\ output_dir = NoDir

\* the names of the candidates of a confidence record
Names(record) == {record.candidates[i].move : i \in 1 .. Len(record.candidates)}

\* C11 (as the spec states it): the run on Scenario C completes its step,
\* flags it uncertain and lists the captures bxa8=Q and bxa8=R, both at the
\* minimum distance, among the candidates of the step's record
C11_ScenarioC ==
  (ScenarioC /\ pc \in {"returned", "raised"}) =>
    /\ pc = "returned"
    /\ Len(confidence_list) = 1
    /\ confidence_list[1].uncertain
    /\ san(StartBoard(PromotionFen), Promo(49, 56, QUEEN)) \in Names(confidence_list[1])
    /\ san(StartBoard(PromotionFen), Promo(49, 56, ROOK)) \in Names(confidence_list[1])

\* Scenario B: the starting position, ID 5 on e2 in the first frame and on e4
\* in the second, every other cell the same in both
ScenarioB ==
  /\ mode = "tags"
  /\ initial_fen = NoFen
  /\ Len(board_states) >= 2
  /\ board_states[1] = Observe("tags", StartWorld(NoFen))
  /\ board_states[2] = Observe("tags", WorldAfter(StartWorld(NoFen), Move(12, 28)))
  /\ board_states[1].piece_ids[6][4] = 5
  /\ board_states[2].piece_ids[4][4] = 5
  /\ board_states[2].piece_ids[6][4] = 0

\* the first step of the tag decoder has been taken
FirstTagStepTaken == mode = "tags" /\ (step_idx >= 2 \/ error = "AssertionError")

\* the ranking of all the legal moves of the first step of a tag run
FirstTagRanking ==
  TagCandidates(StartBoard(initial_fen), board_states[1].piece_ids,
                board_states[2].piece_ids, id_map,
                legal_moves(StartBoard(initial_fen)))

\* C12: on Scenario B the tag scorer ranks e2-e4 first with +110 (source
\* vacated +10, ID carried +100) and every other legal move strictly lower,
\* and the decoder commits e2-e4
C12_ScenarioB ==
  (ScenarioB /\ FirstTagStepTaken) =>
    /\ FirstTagRanking[1] = [move |-> Move(12, 28), score |-> 1100]
    /\ SourceVacated + IdCarried = 1100
    /\ \A i \in 2 .. Len(FirstTagRanking) : FirstTagRanking[i].score < 1100
    /\ {FirstTagRanking[i].move : i \in 1 .. Len(FirstTagRanking)}
         = Range(legal_moves(StartBoard(NoFen)))
    /\ board.move_stack[1] = Move(12, 28)

\* C12 witness: the step of Scenario B has committed e2-e4 with score +110
C12_Witness ==
  /\ ScenarioB
  /\ FirstTagStepTaken
  /\ board.move_stack = <<Move(12, 28)>>
  /\ last.best_score = 1100

\* Scenario D: the starting position, ID 7 on g1 in the first frame; in the
\* second frame the knight stands on f3 with its tag not detected, so g1 and
\* f3 both read 0 and every other cell is unchanged
ScenarioD ==
  /\ mode = "tags"
  /\ initial_fen = NoFen
  /\ Len(board_states) >= 2
  /\ board_states[1] = Observe("tags", StartWorld(NoFen))
  /\ board_states[2] =
       ObserveNoisy("tags", WorldAfter(StartWorld(NoFen), Move(6, 21)), <<21, 0>>)
  /\ board_states[1].piece_ids[7][6] = 7
  /\ board_states[2].piece_ids[7][6] = 0
  /\ board_states[2].piece_ids[5][5] = 0

\* C13 (as the spec states it): on Scenario D the tag decoder commits g1-f3
C13_ScenarioD ==
  (ScenarioD /\ FirstTagStepTaken) => board.move_stack[1] = Move(6, 21)

\* the position after the moves pushed on a position
RECURSIVE Replay(_, _)
Replay(B, moves) ==
  IF moves = <<>> THEN B ELSE Replay(push(B, Head(moves)), Tail(moves))

\* the position the latest resolved step started from
BeforeLatest ==
  Replay(StartBoard(initial_fen),
         SubSeq(board.move_stack, 1, Len(board.move_stack) - 1))

\* the index in board_states of the first frame of the latest step: a step
\* that raised has left the loop index where it was
LatestPair == IF pc = "raised" THEN step_idx ELSE step_idx - 1

\* the cell of a square in a grid
CellOf(grid, s) == grid[7 - square_rank(s)][square_file(s)]

\* C14: when the tag decoder chooses a move whose source is vacated and whose
\* destination reads 0, the score of that move is strictly lower than the
\* score the same move has when the source ID is read on the destination;
\* the score the step records is the score of the move on the frames as read
C14_OccludedScoresLower ==
  (mode = "tags" /\ pc # "filming" /\ Truthy(last.best_move) /\ board.move_stack # <<>>) =>
    LET m == last.best_move
        prev == board_states[LatestPair].piece_ids
        curr == board_states[LatestPair + 1].piece_ids
        carried == Misread(curr, <<m.to_square, CellOf(prev, m.from_square)>>)
    IN /\ last.best_score = _score_move_tags(m, BeforeLatest, prev, curr, id_map)
       /\ pc # "raised" => Latest(confidence_list).score = last.best_score
       /\ (CellOf(prev, m.from_square) # 0 /\ CellOf(curr, m.from_square) = 0
           /\ CellOf(curr, m.to_square) = 0) =>
            last.best_score < _score_move_tags(m, BeforeLatest, prev, carried, id_map)

\* C14 witness: a returned tag run recorded f5-f6 with the tag on f6 not
\* detected, at a score lower than the +110 of the ID carried exactly
C14_Witness ==
  /\ mode = "tags"
  /\ pc = "returned"
  /\ initial_fen = TwoPawnsFen
  /\ board.move_stack = <<Move(37, 45)>>
  /\ Len(board_states) = 2
  /\ CellOf(board_states[2].piece_ids, 45) = 0
  /\ CellOf(board_states[1].piece_ids, 37) # 0
  /\ confidence_list[1].score < 1100
  /\ _score_move_tags(Move(37, 45), StartBoard(TwoPawnsFen), board_states[1].piece_ids,
                      Observe("tags", world).piece_ids, id_map) = 1100

\* C15 (as the spec states it): when the run without a directory returns,
\* the run with a directory has returned too, with the same move list and
\* the same confidence list, whether or not its artifacts could be written
C15_ArtifactFailureHarmless ==
  twin.pc = "returned" =>
    /\ pc = "returned"
    /\ moves_san = twin.moves_san
    /\ confidence_list = twin.confidence_list

\* the state of a run that decoding reads or writes: everything but the
\* directory and the artifacts
DecodeState(r) == [r EXCEPT !.output_dir = NoDir, !.files = {}]

C17_UncertainMovesCollected ==
  mode = "states" =>
    /\ Len(uncertain_moves) =
         Cardinality({i \in 1 .. Len(confidence_list) :
                        confidence_list[i].uncertain /\ moves_san[i] # "??"})
         + (IF pc = "raised" /\ last.best_move # None /\ last.uncertain THEN 1 ELSE 0)
    /\ (last.best_move # None /\ last.uncertain) =>
         /\ uncertain_moves # <<>>
         /\ moves_san # <<>>
         /\ Latest(uncertain_moves).step = LatestPair
         /\ Latest(uncertain_moves).move = Latest(moves_san)
         /\ Latest(uncertain_moves).score = last.best_score
         /\ Len(Latest(uncertain_moves).candidates) <= 5

\* C18 (as the spec states it): in a step that commits a move, every move
\* whose notation is asked for is legal in the position it is asked of.  The
\* occupancy decoder asks for the chosen move after pushing it (lines
\* 294-295); the tag decoder asks for it before the push (lines 60-61); both
\* ask for the other listed candidates after the push (lines 67, 306, 318).
C18_NotationRequestsLegal ==
  [][board' # board =>
       /\ IF mode = "states"
            THEN IsLegalIn(board', Latest(board'.move_stack))
            ELSE IsLegalIn(board, Latest(board'.move_stack))
       /\ \A i \in 1 .. Len(Prefix(last'.candidates, 3)) :
            \/ last'.candidates[i].move = Latest(board'.move_stack)
            \/ IsLegalIn(board', last'.candidates[i].move)]_vars

\* the occupancy a position shows on a square: 0 empty, 1 white (LIGHT),
\* 2 black (DARK)
Shows(B, s) ==
  IF B.pcs[s] = 0 THEN 0 ELSE IF piece_color(B.pcs[s]) = WHITE THEN 1 ELSE 2

\* the distance as the spec words it, square by square, in tenths: 1.0 for
\* each mismatching square, 1.0 more when that square changed between the
\* two frames, 0.5 more when the mismatch is LIGHT against DARK
WordedDistance(B, prev, curr) ==
  LET mismatch == {s \in SQUARES : Shows(B, s) # CellOf(curr, s)}
  IN 10 * Cardinality(mismatch)
     + 10 * Cardinality({s \in mismatch : CellOf(prev, s) # CellOf(curr, s)})
     + 5 * Cardinality({s \in SQUARES : {Shows(B, s), CellOf(curr, s)} = {1, 2}})

\* C19: the score of every candidate of a resolved occupancy step is the
\* worded distance between the position after the candidate and the observed
\* frame, and it is 0 exactly when the two agree on all 64 squares
C19_OccupancyDistance ==
  (mode = "states" /\ pc = "raised" /\ last.best_move # None) =>
    \A i \in 1 .. Len(last.candidates) :
      LET after == push(BeforeLatest, last.candidates[i].move)
          curr == board_states[LatestPair + 1].occupancy
      IN /\ last.candidates[i].score = WordedDistance(after, prev_occupancy, curr)
         /\ last.candidates[i].score = 0 <=>
              \A s \in SQUARES : Shows(after, s) = CellOf(curr, s)

\* C19 witness: e2-e4 was chosen on a frame that reads e4 DARK, at distance
\* 1.0 + 1.0 + 0.5
C19_Witness ==
  /\ mode = "states"
  /\ pc = "raised"
  /\ last.best_move = Move(12, 28)
  /\ last.best_score = 25
  /\ CellOf(board_states[LatestPair + 1].occupancy, 28) = 2

\* the place of a move in the generation order of the legal moves
PlaceIn(moves, m) == CHOOSE i \in 1 .. Len(moves) : moves[i] = m

\* candidate a is ranked before candidate b: the better score (the lower
\* distance, the higher tag score), and among equal scores the move
\* generated earlier
RankedBefore(moves, a, b) ==
  \/ IF mode = "states" THEN a.score < b.score ELSE a.score > b.score
  \/ a.score = b.score /\ PlaceIn(moves, a.move) < PlaceIn(moves, b.move)

\* the legal moves of the latest resolved step, each with its tag score
TagScored(moves) ==
  {[move |-> moves[i],
    score |-> _score_move_tags(moves[i], BeforeLatest,
                               board_states[LatestPair].piece_ids,
                               board_states[LatestPair + 1].piece_ids, id_map)] :
     i \in 1 .. Len(moves)}

\* C20: the occupancy scorer returns every legal move exactly once, the
\* lowest distance first; the tag scorer returns the three best of all the
\* legal moves, the highest score first; among equal scores the move
\* generated earlier comes first, and the committed move is the first one
C20_RankingOrder ==
  (pc # "filming" /\ board.move_stack # <<>> /\ last.best_move # None
   /\ (mode = "states" => pc = "raised")) =>
    LET moves == legal_moves(BeforeLatest)
        cs == last.candidates
    IN /\ \A i, j \in 1 .. Len(cs) : i < j => RankedBefore(moves, cs[i], cs[j])
       /\ Latest(board.move_stack) = cs[1].move
       /\ last.best_score = cs[1].score
       /\ IF mode = "states"
            THEN /\ Len(cs) = Len(moves)
                 /\ {cs[i].move : i \in 1 .. Len(cs)} = Range(moves)
            ELSE /\ Len(cs) = (IF Len(moves) < 3 THEN Len(moves) ELSE 3)
                 /\ Range(cs) \subseteq TagScored(moves)
                 /\ \A c \in TagScored(moves) \ Range(cs) :
                      RankedBefore(moves, Latest(cs), c)

\* C20 witness: an occupancy step committed the earlier generated of two
\* candidates at the same lowest distance
C20_Witness ==
  /\ mode = "states"
  /\ pc = "raised"
  /\ Len(last.candidates) >= 2
  /\ last.candidates[1].score = last.candidates[2].score
  /\ Latest(board.move_stack) = last.candidates[1].move
  /\ PlaceIn(legal_moves(BeforeLatest), last.candidates[1].move)
       < PlaceIn(legal_moves(BeforeLatest), last.candidates[2].move)

\* a tag step has been taken: its frames are board_states[LatestPair] and
\* the next one, its position BeforeLatest
TagStepTaken ==
  mode = "tags" /\ pc # "filming" /\ Truthy(last.best_move) /\ board.move_stack # <<>>

\* an ID that is on no piece and in no misreading: the tags are 1 .. 64
FreshId == Cardinality(SQUARES) + 1

\* what the source square adds to the score of move m on the frames
\* (prev, curr): the score less the score of the same move with a foreign
\* ID read on the source
SourceShare(m, B, prev, curr) ==
  _score_move_tags(m, B, prev, curr, id_map)
    - _score_move_tags(m, B, prev, Misread(curr, <<m.from_square, FreshId>>), id_map)

\* C21: the source square of a legal move adds +10 to its tag score when it
\* reads 0 in the current frame (also when it read 0 before), -50 when it
\* reads the nonzero ID it read before, and nothing when it reads another
\* nonzero ID; checked for every legal move of a tag step, on the frames of
\* the step and on those frames with the source cells read otherwise
C21_SourceVacatedRule ==
  TagStepTaken =>
    LET moves == legal_moves(BeforeLatest)
        prev == board_states[LatestPair].piece_ids
        curr == board_states[LatestPair + 1].piece_ids
    IN \A i \in 1 .. Len(moves) :
         \A p \in {CellOf(prev, moves[i].from_square), 0} :
           \A v \in {CellOf(curr, moves[i].from_square), 0, p, -1} :
             SourceShare(moves[i], BeforeLatest,
                         Misread(prev, <<moves[i].from_square, p>>),
                         Misread(curr, <<moves[i].from_square, v>>))
               = IF v = 0 THEN 100 ELSE IF v = p THEN -500 ELSE 0

\* C21 witness: a tag run whose first step committed a move whose source
\* reads 0 in the second frame, and in whose second step the source of one
\* legal move reads its ID unchanged and the source of another reads a
\* nonzero ID it did not read before
C21_Witness ==
  /\ TagStepTaken
  /\ Len(board.move_stack) = 2
  /\ LatestPair = 2
  /\ CellOf(board_states[2].piece_ids, board.move_stack[1].from_square) = 0
  /\ LET moves == legal_moves(BeforeLatest)
         prev == board_states[LatestPair].piece_ids
         curr == board_states[LatestPair + 1].piece_ids
     IN /\ \E i \in 1 .. Len(moves) :
             /\ CellOf(curr, moves[i].from_square) # 0
             /\ CellOf(curr, moves[i].from_square) = CellOf(prev, moves[i].from_square)
        /\ \E i \in 1 .. Len(moves) :
             /\ CellOf(curr, moves[i].from_square) # 0
             /\ CellOf(curr, moves[i].from_square) # CellOf(prev, moves[i].from_square)

\* what the destination square adds to the score of move m on the frames
\* (prev, curr) when the source read an ID before: the score less the score
\* of the same move with the destination reading 0, which is worth -10
DestinationShare(m, B, prev, curr) ==
  _score_move_tags(m, B, prev, curr, id_map)
    - _score_move_tags(m, B, prev, Misread(curr, <<m.to_square, 0>>), id_map)
    + DestinationEmpty

\* the legal moves of position B that are not castling moves: the rook rule
\* reads other cells than the source and the destination of the king
Plain(B) ==
  LET moves == legal_moves(B)
  IN {moves[i] : i \in {j \in 1 .. Len(moves) : ~is_castling(B, moves[j])}}

\* C22: when the source of a legal move read a nonzero ID in the previous
\* frame, the destination adds +100 to its tag score when it reads that ID,
\* -10 when it reads 0 and -50 when it reads any other nonzero ID; checked
\* for every legal move of a tag step, on the frames of the step and on
\* those frames with the destination read otherwise, where the whole score
\* is the source's share plus the destination's; when the source read 0
\* before, a destination reading 0 and one reading a foreign ID score alike
C22_DestinationContinuity ==
  TagStepTaken =>
    LET prev == board_states[LatestPair].piece_ids
        curr == board_states[LatestPair + 1].piece_ids
    IN \A m \in Plain(BeforeLatest) :
        /\ _score_move_tags(m, BeforeLatest, Misread(prev, <<m.from_square, 0>>),
                            Misread(curr, <<m.to_square, 0>>), id_map)
             = _score_move_tags(m, BeforeLatest, Misread(prev, <<m.from_square, 0>>),
                                Misread(curr, <<m.to_square, FreshId>>), id_map)
        /\ CellOf(prev, m.from_square) # 0 =>
             \A v \in {CellOf(curr, m.to_square), CellOf(prev, m.from_square), 0, -1, FreshId} :
               LET read == Misread(curr, <<m.to_square, v>>)
                   share == IF v = CellOf(prev, m.from_square) THEN 1000
                            ELSE IF v = 0 THEN -100
                            ELSE -500
               IN /\ DestinationShare(m, BeforeLatest, prev, read) = share
                  /\ _score_move_tags(m, BeforeLatest, prev, read, id_map)
                       = share + (IF CellOf(read, m.from_square) = 0 THEN 100
                                  ELSE IF CellOf(read, m.from_square) = CellOf(prev, m.from_square)
                                    THEN -500
                                  ELSE 0)

\* C22 witness: a tag step in which the destination of the committed move
\* reads the ID its source read before, the destination of another legal
\* move reads 0 and the destination of a third reads the ID of another piece
C22_Witness ==
  /\ TagStepTaken
  /\ CellOf(board_states[LatestPair].piece_ids, last.best_move.from_square) # 0
  /\ CellOf(board_states[LatestPair + 1].piece_ids, last.best_move.to_square)
       = CellOf(board_states[LatestPair].piece_ids, last.best_move.from_square)
  /\ LET prev == board_states[LatestPair].piece_ids
         curr == board_states[LatestPair + 1].piece_ids
     IN /\ \E m \in Plain(BeforeLatest) :
             CellOf(prev, m.from_square) # 0 /\ CellOf(curr, m.to_square) = 0
        /\ \E m \in Plain(BeforeLatest) :
             /\ CellOf(prev, m.from_square) # 0
             /\ CellOf(curr, m.to_square) \notin {0, CellOf(prev, m.from_square)}

\* the ID read on the destination is bound in the IDMap to the type and
\* colour of the piece that moves
SameIdentity(B, m, v) ==
  /\ v \in DOMAIN id_map
  /\ piece_type(id_map[v]) = piece_type(B.pcs[m.from_square])
  /\ piece_color(id_map[v]) = piece_color(B.pcs[m.from_square])

\* C23 (as the spec states it): for every legal move of a tag step whose
\* source read 0 in the previous frame, the score is the source's share plus
\* +50 when the ID read on the destination is bound in the IDMap to the type
\* and colour of the moving piece, and the source's share plus -20 in every
\* other case, a destination reading 0 or an unbound ID included
C23_TypeFallback ==
  TagStepTaken =>
    LET prev == board_states[LatestPair].piece_ids
        curr == board_states[LatestPair + 1].piece_ids
    IN \A m \in Plain(BeforeLatest) :
         CellOf(prev, m.from_square) = 0 =>
           _score_move_tags(m, BeforeLatest, prev, curr, id_map)
             = (IF CellOf(curr, m.from_square) = 0 THEN 100 ELSE 0)
                 + (IF SameIdentity(BeforeLatest, m, CellOf(curr, m.to_square))
                      THEN 500 ELSE -200)

\* the squares <<from, to>> of the rook that moves with a king castling to
\* square to_sq
RookSquares(to_sq) ==
  IF to_sq = G1 THEN <<H1, F1>>
  ELSE IF to_sq = C1 THEN <<A1, D1>>
  ELSE IF to_sq = G8 THEN <<H8, F8>>
  ELSE <<A8, D8>>

\* the legal castling moves of position B
Castlings(B) ==
  LET moves == legal_moves(B)
  IN {moves[i] : i \in {j \in 1 .. Len(moves) : is_castling(B, moves[j])}}

\* C24: a castling move scores +50 on top of what the squares of the king
\* score exactly when the rook read a nonzero ID on its corner in the
\* previous frame and that ID is read on the square the rook castles to;
\* the score of a move that is not a castling move does not change when a
\* rook ID is carried from a corner to its castling square; checked for
\* every legal move of a tag step, on the frames of the step and on those
\* frames with the two rook cells read otherwise
C24_CastlingRookRule ==
  TagStepTaken =>
    LET prev == board_states[LatestPair].piece_ids
        curr == board_states[LatestPair + 1].piece_ids
    IN /\ \A m \in Castlings(BeforeLatest) :
            LET rook == RookSquares(m.to_square)
            IN \A p \in {CellOf(prev, rook[1]), 0} :
                 \A v \in {CellOf(curr, rook[2]), p, 0, -1} :
                   _score_move_tags(m, BeforeLatest, Misread(prev, <<rook[1], p>>),
                                    Misread(curr, <<rook[2], v>>), id_map)
                     = _score_move_tags(m, BeforeLatest, prev,
                                        Misread(curr, <<rook[2], FreshId>>), id_map)
                         + (IF p # 0 /\ v = p THEN 500 ELSE 0)
       /\ \A m \in Plain(BeforeLatest) :
            \A to_sq \in {G1, C1, G8, C8} :
              LET rook == RookSquares(to_sq)
              IN {rook[1], rook[2]} \cap {m.from_square, m.to_square} = {} =>
                   _score_move_tags(m, BeforeLatest, Misread(prev, <<rook[1], FreshId>>),
                                    Misread(curr, <<rook[2], FreshId>>), id_map)
                     = _score_move_tags(m, BeforeLatest, prev, curr, id_map)

\* C24 witness: a tag step committed white's castling on the king's side
\* with the ID of the rook carried from h1 to f1, at the score +10 +100 +50
C24_Witness ==
  /\ TagStepTaken
  /\ initial_fen = CastlingFen
  /\ last.best_move = Move(E1, G1)
  /\ is_castling(BeforeLatest, last.best_move)
  /\ CellOf(board_states[LatestPair].piece_ids, H1) # 0
  /\ CellOf(board_states[LatestPair + 1].piece_ids, F1)
       = CellOf(board_states[LatestPair].piece_ids, H1)
  /\ last.best_score = 1600

\* the squares of the starting position whose piece shows an ID in the
\* first frame
Tagged ==
  {s \in SQUARES : /\ StartBoard(initial_fen).pcs[s] # 0
                   /\ CellOf(board_states[1].piece_ids, s) # 0}

\* C25: the IDMap of a tag run binds exactly the IDs the first frame reads
\* on the squares occupied in the starting position, each to the piece on
\* its square; an ID read on an empty square and a cell reading 0 bind
\* nothing, and the mapping inferred from a grid of zeros is empty
C25_IdMappingInference ==
  (mode = "tags" /\ pc # "filming" /\ board_states # <<>>) =>
    /\ DOMAIN id_map = {CellOf(board_states[1].piece_ids, s) : s \in Tagged}
    /\ \A s \in Tagged :
         id_map[CellOf(board_states[1].piece_ids, s)] = StartBoard(initial_fen).pcs[s]
    /\ \A s \in SQUARES \ Tagged :
         CellOf(board_states[1].piece_ids, s) # 0 =>
           CellOf(board_states[1].piece_ids, s) \notin DOMAIN id_map
    /\ 0 \notin DOMAIN id_map
    /\ DOMAIN _infer_id_mapping([row \in ROWS |-> [col \in ROWS |-> 0]],
                                StartBoard(initial_fen)) = {}

\* C25 witness: a tag run was called on a first frame that reads an ID on
\* an empty square; the IDMap binds the pieces and not that ID
C25_Witness ==
  /\ mode = "tags"
  /\ pc # "filming"
  /\ board_states # <<>>
  /\ \E s \in SQUARES :
       /\ StartBoard(initial_fen).pcs[s] = 0
       /\ CellOf(board_states[1].piece_ids, s) # 0
       /\ CellOf(board_states[1].piece_ids, s) \notin DOMAIN id_map
  /\ Cardinality(DOMAIN id_map) = Cardinality(Tagged)
  /\ Tagged # {}

\* C26: the call of a tag run infers the IDMap from the first frame and the
\* starting position before any step is taken, and no later step of the run
\* changes it
C26_IdMapComputedOnce ==
  [][mode = "tags" =>
       /\ (pc = "filming" /\ pc' = "loop") =>
            /\ id_map' = _infer_id_mapping(board_states[1].piece_ids,
                                           StartBoard(initial_fen))
            /\ step_idx' = 1
            /\ moves_san' = <<>>
       /\ pc # "filming" => id_map' = id_map]_vars

\* C26 witness: after two steps of a tag run the IDMap is still the one of
\* the first frame, which is not what the frame before the latest step and
\* its position would give
C26_Witness ==
  /\ TagStepTaken
  /\ LatestPair = 2
  /\ id_map = _infer_id_mapping(board_states[1].piece_ids, StartBoard(initial_fen))
  /\ id_map # _infer_id_mapping(board_states[2].piece_ids, BeforeLatest)

\* the number of recorded moves that are not "??"
ResolvedIn(record) == Cardinality({i \in 1 .. Len(record) : record[i] # "??"})

\* C27: the position of a run changes only by committing the move a step
\* has chosen: every transition keeps the moves applied so far, in order, and
\* adds at most one, the move chosen by the step, played on the position as
\* it was; whenever k steps have been processed, k moves are recorded and
\* the number of moves applied is the number of them that are not "??"
C27_PositionOnlyExtended ==
  [][/\ Len(board'.move_stack) \in {Len(board.move_stack), Len(board.move_stack) + 1}
     /\ SubSeq(board'.move_stack, 1, Len(board.move_stack)) = board.move_stack
     /\ board' # board =>
          /\ pc = "loop"
          /\ Truthy(last'.best_move)
          /\ IsLegalIn(board, last'.best_move)
          /\ board' = push(board, last'.best_move)
     /\ pc' \in {"loop", "returned"} =>
          /\ Len(board'.move_stack) = ResolvedIn(moves_san')
          /\ Len(moves_san') = step_idx' - 1]_vars

\* C27 witness: a returned run processed a resolved step: one move recorded
\* that is not "??", one move applied to the starting position
C27_Witness ==
  /\ pc = "returned"
  /\ Len(moves_san) >= 1
  /\ moves_san[1] # "??"
  /\ Len(board.move_stack) = 1
  /\ board = push(StartBoard(initial_fen), board.move_stack[1])

\* C28: a step records "??" exactly when its position has no legal move;
\* in a position with a legal move the step commits the first candidate of
\* the ranking, whose score no other candidate betters, whatever that score
\* is, and adds no "??" to the recorded moves
C28_UnresolvedOnlyWithoutLegalMove ==
  [][(pc = "loop" /\ step_idx < Len(board_states)) =>
       IF legal_moves(board) = <<>>
         THEN /\ moves_san' = Append(moves_san, "??")
              /\ ~Truthy(last'.best_move)
              /\ board' = board
         ELSE /\ last'.candidates # <<>>
              /\ last'.best_move = last'.candidates[1].move
              /\ last'.best_score = last'.candidates[1].score
              /\ IsLegalIn(board, last'.best_move)
              /\ board' = push(board, last'.best_move)
              /\ \A i \in 1 .. Len(last'.candidates) :
                   IF mode = "states"
                     THEN last'.candidates[i].score >= last'.best_score
                     ELSE last'.candidates[i].score <= last'.best_score
              /\ mode = "tags" =>
                   \A m \in Range(legal_moves(board)) :
                     _score_move_tags(m, board, board_states[step_idx].piece_ids,
                                      board_states[step_idx + 1].piece_ids, id_map)
                       <= last'.best_score
              /\ mode = "states" => Len(last'.candidates) = Len(legal_moves(board))
              /\ moves_san' # Append(moves_san, "??")
              /\ Len(moves_san') >= Len(moves_san)
              /\ SubSeq(moves_san', 1, Len(moves_san)) = moves_san]_vars

\* C28 witness: a step committed a move that matches its frames poorly: a
\* tag move at a negative score, or an occupancy move at a distance above
\* the distance threshold
C28_Witness ==
  /\ pc \in {"loop", "returned", "raised"}
  /\ board.move_stack # <<>>
  /\ Truthy(last.best_move)
  /\ Latest(board.move_stack) = last.best_move
  /\ IF mode = "tags" THEN last.best_score < 0 ELSE last.best_score > dist_threshold

\* C29: once a run has recorded "??", every later transition leaves the
\* position as it is, records nothing but a further "??" and commits no
\* move: the run goes on through its frames and stays unresolved
C29_UnresolvedIsAbsorbing ==
  [][(\E i \in 1 .. Len(moves_san) : moves_san[i] = "??") =>
       /\ board' = board
       /\ legal_moves(board') = <<>>
       /\ moves_san' \in {moves_san, Append(moves_san, "??")}
       /\ (pc = "loop" /\ step_idx < Len(board_states)) =>
            /\ moves_san' = Append(moves_san, "??")
            /\ ~Truthy(last'.best_move)
            /\ pc' = "loop"]_vars

\* C29 witness: a run went on after an unresolved first step and recorded
\* "??" for its second step too, on the position of the first
C29_Witness ==
  /\ pc \in {"loop", "returned"}
  /\ step_idx = 3
  /\ Len(moves_san) = 2
  /\ moves_san[1] = "??"
  /\ moves_san[2] = "??"
  /\ Len(confidence_list) = 2
  /\ board.move_stack = <<>>
  /\ legal_moves(board) = <<>>

\* the scores of a candidate list are in rank order: ascending distances in
\* occupancy mode, descending scores in tag mode
InRankOrder(cs) ==
  \A i, j \in 1 .. Len(cs) :
    i < j => IF mode = "states" THEN cs[i].score <= cs[j].score
             ELSE cs[i].score >= cs[j].score

\* C30: the candidate list of every recorded step has at most 3 entries (at
\* most 5 in an entry of the uncertain moves), is in rank order and is empty
\* exactly when the step recorded "??"; otherwise its first entry is the
\* move recorded for the step, at the score of the record, and the list of
\* the latest record is the head of the ranking of its step
C30_CandidateListBounded ==
  /\ Len(confidence_list) <= Len(moves_san)
  /\ \A k \in 1 .. Len(confidence_list) :
       /\ Len(confidence_list[k].candidates) <= 3
       /\ InRankOrder(confidence_list[k].candidates)
       /\ confidence_list[k].candidates = <<>> <=> moves_san[k] = "??"
       /\ moves_san[k] # "??" =>
            /\ confidence_list[k].candidates[1].move = moves_san[k]
            /\ confidence_list[k].candidates[1].score = confidence_list[k].score
  /\ \A k \in 1 .. Len(uncertain_moves) :
       /\ Len(uncertain_moves[k].candidates) \in 1 .. 5
       /\ InRankOrder(uncertain_moves[k].candidates)
       /\ uncertain_moves[k].candidates[1].move = uncertain_moves[k].move
       /\ uncertain_moves[k].candidates[1].score = uncertain_moves[k].score
  /\ (pc \in {"loop", "returned"} /\ board.move_stack # <<>> /\ Truthy(last.best_move)) =>
       LET listed == Latest(confidence_list).candidates
           moves == legal_moves(BeforeLatest)
       IN /\ Len(listed) = (IF Len(moves) < 3 THEN Len(moves) ELSE 3)
          /\ listed[1].move = san(BeforeLatest, Latest(board.move_stack))
          /\ \A i \in 1 .. Len(listed) :
               /\ listed[i].score = last.candidates[i].score
               /\ \E j \in 1 .. Len(moves) :
                    /\ moves[j] = last.candidates[i].move
                    /\ mode = "tags" =>
                         listed[i].score =
                           _score_move_tags(moves[j], BeforeLatest,
                                            board_states[LatestPair].piece_ids,
                                            board_states[LatestPair + 1].piece_ids, id_map)
          /\ mode = "tags" =>
               \A j \in 1 .. Len(moves) :
                 _score_move_tags(moves[j], BeforeLatest,
                                  board_states[LatestPair].piece_ids,
                                  board_states[LatestPair + 1].piece_ids, id_map)
                   <= listed[1].score

\* C30 witness: a tag step on a position with four legal moves recorded the
\* three best of them, the committed move first at the score of the record
C30_Witness ==
  /\ mode = "tags"
  /\ pc \in {"loop", "returned"}
  /\ Len(board.move_stack) = 1
  /\ Len(legal_moves(StartBoard(initial_fen))) > 3
  /\ Len(confidence_list) >= 1
  /\ Len(confidence_list[1].candidates) = 3
  /\ confidence_list[1].candidates[1].move = moves_san[1]
  /\ confidence_list[1].candidates[1].score = confidence_list[1].score
  /\ confidence_list[1].candidates[2].score > confidence_list[1].candidates[3].score

====
